---- MODULE Spec2Model ----
(***************************************************************************)
(* Model of the gamified quiz adventure of Project Codexa (src/app-1.py):   *)
(* the Streamlit session state, the script run that every user interaction  *)
(* triggers, and the reward ledgers the run settles.                         *)
(*                                                                           *)
(* st.session_state is modelled as the function ss from key names to         *)
(* values; a missing key is a key outside DOMAIN ss.  Dates are day numbers  *)
(* (datetime.utcnow().date() is the variable today).  The float accuracy     *)
(* 100.0 * correct / max(1, total) is kept as the exact fraction             *)
(* <<numerator, denominator>> in lowest terms.                               *)
(***************************************************************************)
EXTENDS Integers, Sequences, FiniteSets, TLC

VARIABLES ss, today, pc, rendered, obs, settlements, ach_awards, quest_awards, engine

vars == <<ss, today, pc, rendered, obs, settlements, ach_awards, quest_awards, engine>>

(***************************************************************************)
(* Bounds of the exploration.                                               *)
(***************************************************************************)
MaxQuestions == 2
MaxHistory == 2
MaxCorrectTotal == 3
\* SpecDays
DayMaxQuestions == 1
DayMaxHistory == 2
LaterDay == 1
\* SpecLedger
LedgerMaxQuestions == 1
LedgerMaxHistory == 2
MaxSudokuWins == 1
\* SpecQuests
QuestMaxHistory == 3
\* SpecGate
GateMaxQuestions == 5
GateMaxHistory == 1
\* the quiz texts: any shapes up to MaxBlocks sub-blocks, and up to
\* MaxExtraBlocks sub-blocks beyond the five of a full quiz
MaxBlocks == 2
MaxExtraBlocks == 1
\* SpecChapters: the retry_quiz and the parts a caller of run_chapters asks for
MaxRetry == 2
MaxParts == 2

(***************************************************************************)
(* Gamification constants.                                                  *)
(***************************************************************************)
ACHIEVEMENTS ==
  << [title |-> "First Steps", xp |-> 25],
     [title |-> "Warming Up",  xp |-> 50],
     [title |-> "Quiz Pro",    xp |-> 100],
     [title |-> "Hot Streak",  xp |-> 50],
     [title |-> "Flawless",    xp |-> 50],
     [title |-> "Marathon",    xp |-> 75] >>

DAILY_QUESTS ==
  << [id |-> "q_daily_quiz",    target |-> 1, key |-> "daily_quizzes", reward_xp |-> 20, reward_coins |-> 5],
     [id |-> "q_daily_correct", target |-> 5, key |-> "daily_correct", reward_xp |-> 20, reward_coins |-> 5] >>

WEEKLY_QUESTS ==
  << [id |-> "q_weekly_quizzes",  target |-> 10, key |-> "weekly_quizzes", reward_xp |-> 100, reward_coins |-> 25],
     [id |-> "q_weekly_accuracy", target |-> 3,  key |-> "weekly_80plus",  reward_xp |-> 100, reward_coins |-> 25] >>

SHOP_ITEMS ==
  << [id |-> "avatar_owl",    cost |-> 20, type |-> "avatar",  value |-> "owl"],
     [id |-> "avatar_dragon", cost |-> 40, type |-> "avatar",  value |-> "dragon"],
     [id |-> "credit_pack",   cost |-> 15, type |-> "credits", value |-> 3] >>

GATE_PCT == 80
ANSWER_XP == 5
GATE_XP == 25
GATE_CREDITS == 1
GATE_COINS == 5
WEEK_DAYS == 7

\* last_active_date = None
NoDate == -1

(***************************************************************************)
(* Dictionary helpers.                                                      *)
(***************************************************************************)
EmptyDict == [k \in {} |-> 0]

SetKey(d, k, v) == [x \in (DOMAIN d) \cup {k} |-> IF x = k THEN v ELSE d[x]]

GetKey(d, k, dflt) == IF k \in DOMAIN d THEN d[k] ELSE dflt

DelKeys(d, ks) == [x \in (DOMAIN d) \ ks |-> d[x]]

SetDefault(d, k, v) == IF k \in DOMAIN d THEN d ELSE SetKey(d, k, v)

Min(a, b) == IF a <= b THEN a ELSE b

Max(a, b) == IF a >= b THEN a ELSE b

RECURSIVE GCD(_, _)
GCD(a, b) == IF b = 0 THEN a ELSE GCD(b, a % b)

\* the value of the float division num / den, as a fraction in lowest terms
Fraction(num, den) == LET g == GCD(num, den) IN <<num \div g, den \div g>>

\* accuracy >= pct, for accuracy = <<num, den>>
FracGeq(f, pct) == f[1] >= pct * f[2]

FracEq(f, pct) == f[1] = pct * f[2]

(***************************************************************************)
(* The inputs of the model: the study selection of the sidebar and the      *)
(* question records a generated quiz is parsed into.                        *)
(***************************************************************************)
Subjects == {"Science"}

ItemPool ==
  << [question |-> "q1", options |-> <<"p", "q", "r">>, answer |-> "q"],
     [question |-> "q2", options |-> <<"u", "v", "u">>, answer |-> "u"],
     [question |-> "q3", options |-> <<"x", "y", "z">>, answer |-> "z"] >>

\* a parsed quiz of n question records
QuizOf(n) == [k \in 1..n |-> ItemPool[((k - 1) % Len(ItemPool)) + 1]]


(***************************************************************************)
(* State helpers.                                                           *)
(***************************************************************************)
\* the defaults of init_state, evaluated on the date d
Defaults(d) ==
  [ subject |-> "", chapter |-> "", part |-> 1,
    quiz_items |-> <<>>, quiz_score |-> 0, quiz_total |-> 0, quiz_count |-> 0,
    progress |-> EmptyDict,
    game_credits |-> 3, total_xp |-> 0, coins |-> 0,
    sudoku_wins |-> 0, sudoku_games_played |-> 0,
    history |-> <<>>,
    unlocked_avatars |-> {"backpack"},
    daily_streak |-> 0, last_active_date |-> NoDate,
    correct_streak |-> 0, correct_total |-> 0, last_quiz_pct |-> <<0, 1>>,
    quests_daily_progress  |-> [daily_quizzes |-> 0, daily_correct |-> 0, reset_date |-> d],
    quests_weekly_progress |-> [weekly_quizzes |-> 0, weekly_80plus |-> 0, week_start |-> d],
    quiz_map_position |-> 0, quiz_map_total_questions |-> 0, quiz_map_correct |-> 0,
    quiz_map_qindex |-> 0, quiz_map_anim |-> "idle", quiz_map_done |-> FALSE,
    quiz_map_answers |-> EmptyDict ]

\* init_state: every missing key gets its default, every present key is kept
init_state(s, d) ==
  [k \in (DOMAIN Defaults(d)) \cup (DOMAIN s) |->
      IF k \in DOMAIN s THEN s[k] ELSE Defaults(d)[k]]

\* mutant of touch_daily_streak: a gap of several days continues the streak
touch_daily_streak_gap(s, d) ==
  [s EXCEPT !.daily_streak = IF s.last_active_date = NoDate THEN 1
                             ELSE IF d - s.last_active_date >= 1 THEN @ + 1
                             ELSE @,
            !.last_active_date = d]

touch_daily_streak(s, d) ==
  [s EXCEPT !.daily_streak = IF s.last_active_date = NoDate THEN 1
                             ELSE IF d - s.last_active_date = 1 THEN @ + 1
                             ELSE IF d - s.last_active_date > 1 THEN 1
                             ELSE @,
            !.last_active_date = d]

\* mutant of DailyReset: the date check is dropped, stale counters are kept
DailyReset_stale(daily, d) == daily

\* mutant of DailyReset: the counters are zeroed but the old date is kept
DailyReset_nostamp(daily, d) ==
  IF daily.reset_date # d
  THEN [daily_quizzes |-> 0, daily_correct |-> 0, reset_date |-> daily.reset_date]
  ELSE daily

\* update_quests, "reset daily": the daily dictionary after the date check
DailyReset(daily, d) ==
  IF daily.reset_date # d
  THEN [daily_quizzes |-> 0, daily_correct |-> 0, reset_date |-> d]
  ELSE daily

\* mutant of WeeklyReset: the week is over one day early
WeeklyReset_early(weekly, d) ==
  IF d - weekly.week_start >= WEEK_DAYS - 1
  THEN [weekly_quizzes |-> 0, weekly_80plus |-> 0, week_start |-> d]
  ELSE weekly

\* update_quests, "reset weekly": the weekly dictionary after the 7-day check
WeeklyReset(weekly, d) ==
  IF d - weekly.week_start >= WEEK_DAYS
  THEN [weekly_quizzes |-> 0, weekly_80plus |-> 0, week_start |-> d]
  ELSE weekly

\* update_quests, the mirrored weekly increments
WeeklyMirror(weekly, progress_key, inc, is_80plus) ==
  IF progress_key = "daily_quizzes"
  THEN [weekly EXCEPT !.weekly_quizzes = @ + inc,
                      !.weekly_80plus = IF is_80plus THEN @ + 1 ELSE @]
  ELSE weekly

DailyAdd(daily, progress_key, inc) ==
  SetKey(daily, progress_key, GetKey(daily, progress_key, 0) + inc)

update_quests(s, progress_key, inc, is_80plus, d) ==
  [s EXCEPT !.quests_daily_progress = DailyAdd(DailyReset(@, d), progress_key, inc),
            !.quests_weekly_progress =
                WeeklyMirror(WeeklyReset(@, d), progress_key, inc, is_80plus)]

\* the condition lambdas of ACHIEVEMENTS
AchCond(title, s) ==
  CASE title = "First Steps" -> s.quiz_count >= 1
    [] title = "Warming Up"  -> s.quiz_count >= 5
    [] title = "Quiz Pro"    -> s.quiz_count >= 20
    [] title = "Hot Streak"  -> s.daily_streak >= 5
    [] title = "Flawless"    -> FracEq(s.last_quiz_pct, 100)
    [] title = "Marathon"    -> s.correct_total >= 50

AchKey(title) == "ach_" \o title

\* mutant of AchStep: the membership test of the unlocked flag is dropped
AchStep_nomember(r, a) ==
  IF AchCond(a.title, r.ss)
  THEN [ss |-> [SetKey(r.ss, AchKey(a.title), TRUE) EXCEPT !.total_xp = @ + a.xp],
        newly |-> Append(r.newly, a.title)]
  ELSE r

\* one iteration of the loop of check_achievements
AchStep(r, a) ==
  IF ~GetKey(r.ss, AchKey(a.title), FALSE) /\ AchCond(a.title, r.ss)
  THEN [ss |-> [SetKey(r.ss, AchKey(a.title), TRUE) EXCEPT !.total_xp = @ + a.xp],
        newly |-> Append(r.newly, a.title)]
  ELSE r

RECURSIVE AchLoop(_, _)
AchLoop(r, i) ==
  IF i > Len(ACHIEVEMENTS) THEN r ELSE AchLoop(AchStep(r, ACHIEVEMENTS[i]), i + 1)

\* check_achievements: the state after it and the list it returns
check_achievements(s) == AchLoop([ss |-> s, newly |-> <<>>], 1)

\* mutant of apply_answer_and_move: the lower clamp max(0, .) is dropped
apply_answer_and_move_noclamp(s, is_correct, qidx, d) ==
  IF is_correct
  THEN update_quests(
         [s EXCEPT !.quiz_map_position = Min(@ + 1, s.quiz_map_total_questions + 1),
                   !.quiz_map_correct = @ + 1,
                   !.quiz_map_anim = "fwd",
                   !.total_xp = @ + ANSWER_XP,
                   !.correct_streak = @ + 1,
                   !.correct_total = @ + 1,
                   !.quiz_map_qindex = qidx + 1],
         "daily_correct", 1, FALSE, d)
  ELSE [s EXCEPT !.quiz_map_position = @ - 1,
                 !.quiz_map_anim = "back",
                 !.correct_streak = 0,
                 !.quiz_map_qindex = qidx + 1]

\* mutant of apply_answer_and_move: a correct answer skips update_quests
apply_answer_and_move_noquest(s, is_correct, qidx, d) ==
  IF is_correct
  THEN [s EXCEPT !.quiz_map_position = Min(@ + 1, s.quiz_map_total_questions + 1),
                 !.quiz_map_correct = @ + 1,
                 !.quiz_map_anim = "fwd",
                 !.total_xp = @ + ANSWER_XP,
                 !.correct_streak = @ + 1,
                 !.correct_total = @ + 1,
                 !.quiz_map_qindex = qidx + 1]
  ELSE [s EXCEPT !.quiz_map_position = Max(0, @ - 1),
                 !.quiz_map_anim = "back",
                 !.correct_streak = 0,
                 !.quiz_map_qindex = qidx + 1]

\* mutant of apply_answer_and_move: a wrong answer keeps the correct streak
apply_answer_and_move_keepstreak(s, is_correct, qidx, d) ==
  IF is_correct
  THEN update_quests(
         [s EXCEPT !.quiz_map_position = Min(@ + 1, s.quiz_map_total_questions + 1),
                   !.quiz_map_correct = @ + 1,
                   !.quiz_map_anim = "fwd",
                   !.total_xp = @ + ANSWER_XP,
                   !.correct_streak = @ + 1,
                   !.correct_total = @ + 1,
                   !.quiz_map_qindex = qidx + 1],
         "daily_correct", 1, FALSE, d)
  ELSE [s EXCEPT !.quiz_map_position = Max(0, @ - 1),
                 !.quiz_map_anim = "back",
                 !.quiz_map_qindex = qidx + 1]

\* apply_answer_and_move with a wrong answer stepping back two tiles
apply_answer_and_move_back2(s, is_correct, qidx, d) ==
  IF is_correct
  THEN update_quests(
         [s EXCEPT !.quiz_map_position = Min(@ + 1, s.quiz_map_total_questions + 1),
                   !.quiz_map_correct = @ + 1,
                   !.quiz_map_anim = "fwd",
                   !.total_xp = @ + ANSWER_XP,
                   !.correct_streak = @ + 1,
                   !.correct_total = @ + 1,
                   !.quiz_map_qindex = qidx + 1],
         "daily_correct", 1, FALSE, d)
  ELSE [s EXCEPT !.quiz_map_position = Max(0, @ - 2),
                 !.quiz_map_anim = "back",
                 !.correct_streak = 0,
                 !.quiz_map_qindex = qidx + 1]

apply_answer_and_move(s, is_correct, qidx, d) ==
  IF is_correct
  THEN update_quests(
         [s EXCEPT !.quiz_map_position = Min(@ + 1, s.quiz_map_total_questions + 1),
                   !.quiz_map_correct = @ + 1,
                   !.quiz_map_anim = "fwd",
                   !.total_xp = @ + ANSWER_XP,
                   !.correct_streak = @ + 1,
                   !.correct_total = @ + 1,
                   !.quiz_map_qindex = qidx + 1],
         "daily_correct", 1, FALSE, d)
  ELSE [s EXCEPT !.quiz_map_position = Max(0, @ - 1),
                 !.quiz_map_anim = "back",
                 !.correct_streak = 0,
                 !.quiz_map_qindex = qidx + 1]

\* progress.setdefault(subj, {}).setdefault(chap, {"score":0,"total":0})
ProgressDefault(progress, subj, chap) ==
  SetKey(progress, subj,
         SetDefault(GetKey(progress, subj, EmptyDict), chap, [score |-> 0, total |-> 0]))

\* progress[subj][chap]["score"] += score; progress[subj][chap]["total"] += total
ProgressAdd(progress, subj, chap, score, total) ==
  [progress EXCEPT ![subj][chap] = [score |-> @.score + score, total |-> @.total + total]]

\* RecordAttempt with the five questions of a full quiz as the total
RecordAttempt_five(s, xp, d) ==
  [s EXCEPT !.quiz_score = @ + s.quiz_map_correct,
            !.quiz_total = @ + s.quiz_map_total_questions,
            !.quiz_count = @ + 1,
            !.progress = ProgressAdd(ProgressDefault(@, s.subject, s.chapter),
                                     s.subject, s.chapter,
                                     s.quiz_map_correct, s.quiz_map_total_questions),
            !.history = Append(@, [date |-> d, subject |-> s.subject, chapter |-> s.chapter,
                                   score |-> s.quiz_map_correct,
                                   total |-> 5,
                                   xp |-> xp])]

\* the statistics, chapter progress and history record both branches of the gate write
RecordAttempt(s, xp, d) ==
  [s EXCEPT !.quiz_score = @ + s.quiz_map_correct,
            !.quiz_total = @ + s.quiz_map_total_questions,
            !.quiz_count = @ + 1,
            !.progress = ProgressAdd(ProgressDefault(@, s.subject, s.chapter),
                                     s.subject, s.chapter,
                                     s.quiz_map_correct, s.quiz_map_total_questions),
            !.history = Append(@, [date |-> d, subject |-> s.subject, chapter |-> s.chapter,
                                   score |-> s.quiz_map_correct,
                                   total |-> s.quiz_map_total_questions,
                                   xp |-> xp])]

\* what check_completion_gate hands back: the state, the returned pair, and
\* the list its check_achievements call returned
GateResult(a, passed, msg) == [ss |-> a.ss, ret |-> <<passed, msg>>, newly |-> a.newly]

\* mutant of GatePass: the credit of the completion bonus is forgotten
GatePass_nocredit(s, d) ==
  GateResult(
    check_achievements(
      RecordAttempt([s EXCEPT !.quiz_map_done = TRUE,
                              !.quiz_map_anim = "celebrate",
                              !.total_xp = @ + GATE_XP,
                              !.coins = @ + GATE_COINS],
                    GATE_XP + ANSWER_XP * s.quiz_map_correct, d)),
    TRUE, "great_job")

\* the branch accuracy >= 80.0, entered after update_quests
GatePass(s, d) ==
  GateResult(
    check_achievements(
      RecordAttempt([s EXCEPT !.quiz_map_done = TRUE,
                              !.quiz_map_anim = "celebrate",
                              !.total_xp = @ + GATE_XP,
                              !.game_credits = @ + GATE_CREDITS,
                              !.coins = @ + GATE_COINS],
                    GATE_XP + ANSWER_XP * s.quiz_map_correct, d)),
    TRUE, "great_job")

\* mutant of GateFail: the failed attempt is paid the completion XP
GateFail_bonus(s, d) ==
  GateResult(check_achievements(
               RecordAttempt([s EXCEPT !.total_xp = @ + GATE_XP],
                             ANSWER_XP * s.quiz_map_correct, d)),
             FALSE, "retry")

\* the else branch, entered after update_quests
GateFail(s, d) ==
  GateResult(check_achievements(RecordAttempt(s, ANSWER_XP * s.quiz_map_correct, d)),
             FALSE, "retry")

\* mutant of GateBranch: the threshold is compared with > instead of >=
GateBranch_strict(s, accuracy, d) ==
  IF accuracy[1] > GATE_PCT * accuracy[2] THEN GatePass(s, d) ELSE GateFail(s, d)

\* if accuracy >= 80.0: ... else: ...
GateBranch(s, accuracy, d) ==
  IF FracGeq(accuracy, GATE_PCT) THEN GatePass(s, d) ELSE GateFail(s, d)

\* the body of the gate once its guard holds
GateSettle(s, accuracy, d) ==
  GateBranch(update_quests([s EXCEPT !.last_quiz_pct = accuracy],
                           "daily_quizzes", 1, FracGeq(accuracy, GATE_PCT), d),
             accuracy, d)

\* mutant of check_completion_gate: the quiz_map_done test is dropped
check_completion_gate_noflag(s, d) ==
  IF s.quiz_map_qindex >= s.quiz_map_total_questions
  THEN GateSettle(s, Fraction(100 * s.quiz_map_correct, Max(1, s.quiz_map_total_questions)), d)
  ELSE [ss |-> s, ret |-> <<FALSE, "">>, newly |-> <<>>]

check_completion_gate(s, d) ==
  IF s.quiz_map_qindex >= s.quiz_map_total_questions /\ ~s.quiz_map_done
  THEN GateSettle(s, Fraction(100 * s.quiz_map_correct, Max(1, s.quiz_map_total_questions)), d)
  ELSE [ss |-> s, ret |-> <<FALSE, "">>, newly |-> <<>>]

(***************************************************************************)
(* Ranks and levels.                                                        *)
(***************************************************************************)
RANKS ==
  << [threshold |-> 0,    name |-> "Rookie"],
     [threshold |-> 100,  name |-> "Apprentice"],
     [threshold |-> 300,  name |-> "Scholar"],
     [threshold |-> 700,  name |-> "Mentor"],
     [threshold |-> 1200, name |-> "Master"],
     [threshold |-> 2000, name |-> "Grandmaster"] >>

\* cumulative
LEVEL_XP == <<0, 100, 250, 450, 700, 1000, 1400, 1850, 2350, 2900, 3500, 4200>>

RECURSIVE RankLoop_above(_, _, _)
RankLoop_above(xp, i, r) ==
  IF i > Len(RANKS) THEN r
  ELSE RankLoop_above(xp, i + 1, IF xp > RANKS[i].threshold THEN RANKS[i].name ELSE r)

\* for threshold, name in RANKS: if xp >= threshold: r = name
RECURSIVE RankLoop(_, _, _)
RankLoop(xp, i, r) ==
  IF i > Len(RANKS) THEN r
  ELSE RankLoop(xp, i + 1, IF xp >= RANKS[i].threshold THEN RANKS[i].name ELSE r)

compute_rank(xp) == RankLoop(xp, 1, "Rookie")

RECURSIVE LevelLoop_index(_, _, _)
LevelLoop_index(xp, i, lvl) ==
  IF i > Len(LEVEL_XP) THEN lvl
  ELSE LevelLoop_index(xp, i + 1, IF xp >= LEVEL_XP[i] THEN i - 1 ELSE lvl)

\* for i, cxp in enumerate(LEVEL_XP): if xp >= cxp: lvl = i + 1
\* (enumerate counts from 0, the sequence from 1: i + 1 there is i here)
RECURSIVE LevelLoop(_, _, _)
LevelLoop(xp, i, lvl) ==
  IF i > Len(LEVEL_XP) THEN lvl
  ELSE LevelLoop(xp, i + 1, IF xp >= LEVEL_XP[i] THEN i ELSE lvl)

compute_level(xp) == Min(LevelLoop(xp, 1, 1), Len(LEVEL_XP))

(***************************************************************************)
(* Badges.  The names stand for the source's strings without their emoji.  *)
(***************************************************************************)
BADGE_LADDER ==
  << [threshold |-> 100, name |-> "Diamond Master"],
     [threshold |-> 50,  name |-> "Diamond"],
     [threshold |-> 30,  name |-> "Gold"],
     [threshold |-> 20,  name |-> "Silver"],
     [threshold |-> 10,  name |-> "Bronze"],
     [threshold |-> 5,   name |-> "Rising Star"] >>

RECURSIVE BadgeLoop_last(_, _)
BadgeLoop_last(total, i) ==
  IF i > Len(BADGE_LADDER) THEN "Novice"
  ELSE IF total >= BADGE_LADDER[i].threshold /\ BadgeLoop_last(total, i + 1) = "Novice"
       THEN BADGE_LADDER[i].name
       ELSE BadgeLoop_last(total, i + 1)

\* for threshold, name in BADGE_LADDER: if total >= threshold: return name
\* return "Novice"
RECURSIVE BadgeLoop(_, _)
BadgeLoop(total, i) ==
  IF i > Len(BADGE_LADDER) THEN "Novice"
  ELSE IF total >= BADGE_LADDER[i].threshold THEN BADGE_LADDER[i].name
       ELSE BadgeLoop(total, i + 1)

compute_badge(total) == BadgeLoop(total, 1)

\* the ladder of the earlier variant of the app (app.py)
BADGE_LADDER_app ==
  << [threshold |-> 50, name |-> "Diamond"],
     [threshold |-> 30, name |-> "Gold"],
     [threshold |-> 20, name |-> "Silver"],
     [threshold |-> 10, name |-> "Bronze"] >>

\* for threshold, name in BADGE_LADDER: if total >= threshold: return name
\* return "No Badge Yet"
RECURSIVE BadgeLoop_app(_, _)
BadgeLoop_app(total, i) ==
  IF i > Len(BADGE_LADDER_app) THEN "No Badge Yet"
  ELSE IF total >= BADGE_LADDER_app[i].threshold THEN BADGE_LADDER_app[i].name
       ELSE BadgeLoop_app(total, i + 1)

compute_badge_app(total) == BadgeLoop_app(total, 1)

(***************************************************************************)
(* Quests and shop.                                                         *)
(***************************************************************************)
QuestMark(id, d) == "quest_done_" \o id \o "_" \o ToString(d)

GrantOne(s, q, completed_ids) ==
  IF q.id \in completed_ids
  THEN [s EXCEPT !.total_xp = @ + q.reward_xp, !.coins = @ + q.reward_coins]
  ELSE s

RECURSIVE GrantLoop(_, _, _)
GrantLoop(s, quests, completed_ids) ==
  IF quests = <<>> THEN s
  ELSE GrantLoop(GrantOne(s, Head(quests), completed_ids), Tail(quests), completed_ids)

grant_quest_rewards(s, completed_ids) ==
  GrantLoop(s, DAILY_QUESTS \o WEEKLY_QUESTS, completed_ids)

\* MarkOne without the test of the quest_done mark
MarkOne_nomark(r, q, counters, d) ==
  IF GetKey(counters, q.key, 0) >= q.target
  THEN [ss |-> SetKey(r.ss, QuestMark(q.id, d), TRUE), completed |-> r.completed \cup {q.id}]
  ELSE r

\* one iteration of a marking loop of quest_progress_view
MarkOne(r, q, counters, d) ==
  IF GetKey(counters, q.key, 0) >= q.target /\ ~GetKey(r.ss, QuestMark(q.id, d), FALSE)
  THEN [ss |-> SetKey(r.ss, QuestMark(q.id, d), TRUE), completed |-> r.completed \cup {q.id}]
  ELSE r

\* counters is the progress dictionary read, d the date part of the mark key
RECURSIVE MarkLoop(_, _, _, _)
MarkLoop(r, quests, counters, d) ==
  IF quests = <<>> THEN r
  ELSE MarkLoop(MarkOne(r, Head(quests), counters, d), Tail(quests), counters, d)

\* if completed: grant_quest_rewards(completed)
GrantIfAny(r) ==
  IF r.completed # {} THEN grant_quest_rewards(r.ss, r.completed) ELSE r.ss

DailyQuestView(s, daily, d) ==
  GrantIfAny(MarkLoop([ss |-> s, completed |-> {}], DAILY_QUESTS, daily, d))

WeeklyQuestView(s, weekly, d) ==
  GrantIfAny(MarkLoop([ss |-> s, completed |-> {}], WEEKLY_QUESTS, weekly,
                      GetKey(weekly, "week_start", d)))

quest_progress_view(s, d) ==
  WeeklyQuestView(DailyQuestView(s, s.quests_daily_progress, d),
                  s.quests_weekly_progress, d)

\* ShopBuy that sells only to a learner left with coins
ShopBuy_strict(s, item) ==
  IF s.coins > item.cost
  THEN IF item.type = "avatar"
       THEN [s EXCEPT !.coins = @ - item.cost, !.unlocked_avatars = @ \cup {item.value}]
       ELSE [s EXCEPT !.coins = @ - item.cost, !.game_credits = @ + item.value]
  ELSE s

\* ShopBuy without the test of the coins
ShopBuy_nocheck(s, item) ==
  IF item.type = "avatar"
  THEN [s EXCEPT !.coins = @ - item.cost, !.unlocked_avatars = @ \cup {item.value}]
  ELSE [s EXCEPT !.coins = @ - item.cost, !.game_credits = @ + item.value]

\* ShopBuy that takes the cost out of total_xp as well
ShopBuy_xp(s, item) ==
  IF s.coins >= item.cost
  THEN IF item.type = "avatar"
       THEN [s EXCEPT !.coins = @ - item.cost, !.total_xp = @ - item.cost,
                      !.unlocked_avatars = @ \cup {item.value}]
       ELSE [s EXCEPT !.coins = @ - item.cost, !.total_xp = @ - item.cost,
                      !.game_credits = @ + item.value]
  ELSE s

\* the Buy button of one shop item
ShopBuy(s, item) ==
  IF s.coins >= item.cost
  THEN IF item.type = "avatar"
       THEN [s EXCEPT !.coins = @ - item.cost, !.unlocked_avatars = @ \cup {item.value}]
       ELSE IF item.type = "credits"
       THEN [s EXCEPT !.coins = @ - item.cost, !.game_credits = @ + item.value]
       ELSE [s EXCEPT !.coins = @ - item.cost]
  ELSE s

\* the marks of the quests a marking loop completes: the quests whose rewards
\* the view hands to grant_quest_rewards, each with its window
PaidMarks(quests, done, d) ==
  {QuestMark(quests[i].id, d) : i \in {j \in 1..Len(quests) : quests[j].id \in done}}

DailyPaid(s, daily, d) ==
  PaidMarks(DAILY_QUESTS, MarkLoop([ss |-> s, completed |-> {}], DAILY_QUESTS, daily, d).completed, d)

WeeklyPaid(s, weekly, wk_start) ==
  PaidMarks(WEEKLY_QUESTS,
            MarkLoop([ss |-> s, completed |-> {}], WEEKLY_QUESTS, weekly, wk_start).completed,
            wk_start)

\* the quest rewards one quest_progress_view grants, as marks
QuestsPaid(s, d) ==
  DailyPaid(s, s.quests_daily_progress, d)
    \cup WeeklyPaid(DailyQuestView(s, s.quests_daily_progress, d), s.quests_weekly_progress,
                    GetKey(s.quests_weekly_progress, "week_start", d))

(***************************************************************************)
(* The games tab.  The board generate_sudoku() deals is "puzzle"; the cells  *)
(* the learner typed are "blank", "partial" (a cell is empty), "solved"      *)
(* (full and valid) or "wrong" (full and invalid).                           *)
(***************************************************************************)
SUDOKU_XP == 10

SudokuInputs == {"partial", "solved", "wrong"}

\* if 'current_sudoku' not in st.session_state: ...
SudokuDeal(s) ==
  IF "current_sudoku" \in DOMAIN s THEN s
  ELSE SetKey(SetKey(SetKey(s, "current_sudoku", "puzzle"), "sudoku_user_input", "blank"),
              "sudoku_started", FALSE)

GameResult(s, rerun, shown) == [ss |-> s, rerun |-> rerun, shown |-> shown]

\* the buttons of the four columns; Start or Check by sudoku_started
SudokuButtons(s) ==
  {"sudoku_new", "sudoku_reset"}
     \cup (IF s.sudoku_started THEN {"sudoku_check", "sudoku_grid"} ELSE {"sudoku_start"})

\* the New Game button
SudokuNew(s) ==
  [s EXCEPT !.current_sudoku = "puzzle", !.sudoku_user_input = "blank", !.sudoku_started = FALSE]

\* the Start button
SudokuStart(s) ==
  IF s.game_credits > 0
  THEN GameResult([s EXCEPT !.game_credits = @ - 1, !.sudoku_started = TRUE], TRUE, {})
  ELSE GameResult(s, FALSE, SudokuButtons(s))

\* the Check button: a win pays the XP and refunds the credit
SudokuCheck(s) ==
  IF s.sudoku_user_input = "solved"
  THEN GameResult([s EXCEPT !.total_xp = @ + SUDOKU_XP,
                            !.game_credits = @ + 1,
                            !.sudoku_wins = @ + 1,
                            !.sudoku_started = FALSE,
                            !.sudoku_games_played = @ + 1], TRUE, {})
  ELSE GameResult(s, FALSE, SudokuButtons(s))

\* the Reset Inputs button
SudokuReset(s) ==
  IF s.sudoku_started
  THEN GameResult([s EXCEPT !.sudoku_user_input = "blank"], TRUE, {})
  ELSE GameResult(s, FALSE, SudokuButtons(s))

\* the number inputs of the grid, drawn while the game is started
SudokuGrid(s, ev) ==
  IF ev.type = "sudoku_fill" /\ s.sudoku_started
  THEN GameResult([s EXCEPT !.sudoku_user_input = ev.cells], FALSE, SudokuButtons(s))
  ELSE GameResult(s, FALSE, SudokuButtons(s))

\* render_sudoku_game below the credit check, on the dealt board
SudokuPlay(s, ev) ==
  IF ev.type = "sudoku_new" THEN GameResult(SudokuNew(s), TRUE, {})
  ELSE IF ev.type = "sudoku_start" /\ ~s.sudoku_started THEN SudokuStart(s)
  ELSE IF ev.type = "sudoku_check" /\ s.sudoku_started THEN SudokuCheck(s)
  ELSE IF ev.type = "sudoku_reset" THEN SudokuReset(s)
  ELSE SudokuGrid(s, ev)

render_sudoku_game_open(s, ev) ==
  SudokuPlay(SudokuDeal(SetDefault(s, "sudoku_games_played", 0)), ev)

render_sudoku_game(s, ev) ==
  IF s.game_credits <= 0
  THEN GameResult(SetDefault(s, "sudoku_games_played", 0), FALSE, {})
  ELSE SudokuPlay(SudokuDeal(SetDefault(s, "sudoku_games_played", 0)), ev)


(***************************************************************************)
(* The quiz tab.                                                            *)
(***************************************************************************)
\* the keys k with k.startswith("quiz_map_")
QuizMapKeys ==
  {"quiz_map_position", "quiz_map_total_questions", "quiz_map_correct",
   "quiz_map_qindex", "quiz_map_anim", "quiz_map_done", "quiz_map_answers"}

\* the deletion loop of Retry Quiz and Next Part
DeleteQuizKeys(s) ==
  DelKeys(s, {k \in DOMAIN s : k \in QuizMapKeys \/ k = "quiz_items"})

\* the Start Quiz Adventure button: items is parse_quiz_block(generate_quiz(...))
StartQuiz(s, items) ==
  [s EXCEPT !.quiz_items = items,
            !.quiz_map_total_questions = Len(items),
            !.quiz_map_position = 0,
            !.quiz_map_correct = 0,
            !.quiz_map_qindex = 0,
            !.quiz_map_anim = "idle",
            !.quiz_map_done = FALSE,
            !.quiz_map_answers = EmptyDict]

FirstIndexOf(options, text) ==
  IF \E j \in 1..Len(options) : options[j] = text
  THEN (CHOOSE j \in 1..Len(options) :
           options[j] = text /\ \A h \in 1..(j - 1) : options[h] # text) - 1
  ELSE -1

\* q.get('correct'), else the first option equal to q.get('answer'), else -1
CorrectIndex(q) ==
  IF "correct" \in DOMAIN q THEN q.correct
  ELSE FirstIndexOf(q.options, GetKey(q, "answer", ""))

NoCall == [called |-> FALSE]

\* what a run remembers of its apply_answer_and_move call
AnswerCall(pre, post, is_ok, qi) ==
  [ss |-> post,
   call |-> [called |-> TRUE, pre |-> pre, post |-> post, ok |-> is_ok, qidx |-> qi]]

\* AnswerScored that stores every answer under index 0
AnswerScored_first(s, i, is_ok, qi, d) ==
  AnswerCall([s EXCEPT !.quiz_map_answers = SetKey(@, 0, [sel |-> i, ok |-> is_ok])],
             apply_answer_and_move(
               [s EXCEPT !.quiz_map_answers = SetKey(@, 0, [sel |-> i, ok |-> is_ok])],
               is_ok, qi, d),
             is_ok, qi)

AnswerScored(s, i, is_ok, qi, d) ==
  AnswerCall([s EXCEPT !.quiz_map_answers = SetKey(@, qi, [sel |-> i, ok |-> is_ok])],
             apply_answer_and_move(
               [s EXCEPT !.quiz_map_answers = SetKey(@, qi, [sel |-> i, ok |-> is_ok])],
               is_ok, qi, d),
             is_ok, qi)

\* the click on option i of the current question
AnswerClick(s, i, d) ==
  AnswerScored(s, i, i = CorrectIndex(s.quiz_items[s.quiz_map_qindex + 1]),
               s.quiz_map_qindex, d)

\* what a run remembers of its check_completion_gate call
GateCall(pre, g) ==
  [called |-> TRUE, pre |-> pre, post |-> g.ss, ret |-> g.ret, newly |-> g.newly]

\* the buttons the gate result puts on the page
GateButtons(ret) ==
  IF ret[1] THEN {"retry", "next"} ELSE IF ret[2] # "" THEN {"retry"} ELSE {}

TabResult(s, rerun, fresh, gate, answer, shown) ==
  [ss |-> s, rerun |-> rerun, fresh |-> fresh, gate |-> gate, answer |-> answer,
   rendered |-> shown]

AnswerResult(a, call) == TabResult(a.ss, TRUE, FALSE, call, a.call, {})

\* AfterGate that shows a question whatever quiz_map_qindex is
AfterGate_past(call, ev, d) ==
  IF ev.type = "retry" /\ "retry" \in GateButtons(call.ret)
  THEN TabResult(DeleteQuizKeys(call.post), TRUE, TRUE, call, NoCall, {})
  ELSE IF ev.type = "next" /\ "next" \in GateButtons(call.ret)
  THEN TabResult(DeleteQuizKeys([call.post EXCEPT !.part = IF @ < 5 THEN @ + 1 ELSE @]),
                 TRUE, TRUE, call, NoCall, {})
  ELSE IF ev.type = "option"
       THEN AnswerResult(AnswerClick(call.post, ev.i, d), call)
       ELSE TabResult(call.post, FALSE, FALSE, call, NoCall,
                      GateButtons(call.ret) \cup {"gen_quiz", "opt"})

\* the quiz tab from the gate result on
AfterGate(call, ev, d) ==
  IF ev.type = "retry" /\ "retry" \in GateButtons(call.ret)
  THEN TabResult(DeleteQuizKeys(call.post), TRUE, TRUE, call, NoCall, {})
  ELSE IF ev.type = "next" /\ "next" \in GateButtons(call.ret)
  THEN TabResult(DeleteQuizKeys([call.post EXCEPT !.part = IF @ < 5 THEN @ + 1 ELSE @]),
                 TRUE, TRUE, call, NoCall, {})
  ELSE IF call.post.quiz_map_qindex < Len(call.post.quiz_items)
  THEN IF ev.type = "option"
       THEN AnswerResult(AnswerClick(call.post, ev.i, d), call)
       ELSE TabResult(call.post, FALSE, FALSE, call, NoCall,
                      GateButtons(call.ret) \cup {"gen_quiz", "opt"})
  ELSE TabResult(call.post, FALSE, FALSE, call, NoCall,
                 GateButtons(call.ret) \cup {"gen_quiz"})

AnimReset(s) ==
  IF s.quiz_map_anim \in {"fwd", "back"} THEN [s EXCEPT !.quiz_map_anim = "idle"] ELSE s

GateRun(s, d) == GateCall(s, check_completion_gate(s, d))

\* QuizTab without the test of an empty quiz_items
QuizTab_noguard(s, ev, d) ==
  IF s.subject # "" /\ s.chapter # ""
  THEN IF ev.type = "start"
       THEN TabResult(StartQuiz(s, QuizOf(ev.n)), TRUE, TRUE, NoCall, NoCall, {})
       ELSE AfterGate(GateRun(AnimReset(s), d), ev, d)
  ELSE TabResult(s, FALSE, FALSE, NoCall, NoCall, {})

\* the quiz tab of one script run with the widget event ev
QuizTab(s, ev, d) ==
  IF s.subject # "" /\ s.chapter # ""
  THEN IF ev.type = "start"
       THEN TabResult(StartQuiz(s, QuizOf(ev.n)), TRUE, TRUE, NoCall, NoCall, {})
       ELSE IF s.quiz_items # <<>>
       THEN AfterGate(GateRun(AnimReset(s), d), ev, d)
       ELSE TabResult(s, FALSE, FALSE, NoCall, NoCall, {"gen_quiz"})
  ELSE TabResult(s, FALSE, FALSE, NoCall, NoCall, {})

(***************************************************************************)
(* One run of the script, top to bottom, with the widget event ev.  A run    *)
(* that reaches st.rerun() stops there (rerun = TRUE) and is followed by a   *)
(* run without an event.                                                     *)
(***************************************************************************)
NoEvent == [type |-> "none"]

\* the study selection of the sidebar
Sidebar(s, ev) ==
  IF ev.type = "select"
  THEN [s EXCEPT !.subject = ev.subject, !.chapter = ev.chapter]
  ELSE s

\* the shop tab
ShopTab(s, ev) ==
  IF ev.type = "buy" THEN ShopBuy(s, SHOP_ITEMS[ev.item]) ELSE s

\* what a run remembers of its quest_progress_view call
QuestCall(s, d) ==
  [called |-> TRUE, pre |-> s, post |-> quest_progress_view(s, d), paid |-> QuestsPaid(s, d)]

\* what a run remembers of its Buy click
BuyCall(s, ev) ==
  IF ev.type = "buy"
  THEN [called |-> TRUE, pre |-> s, post |-> ShopBuy(s, SHOP_ITEMS[ev.item]), item |-> ev.item]
  ELSE NoCall

\* a run that st.rerun() ended before the quests tab
Skipped(r) == r @@ [quests |-> NoCall, buy |-> NoCall]

GamesMerge(qz, g) ==
  [qz EXCEPT !.ss = g.ss, !.rerun = g.rerun,
             !.rendered = IF g.rerun THEN {} ELSE @ \cup g.shown]

\* the games tab
GamesTab(qz, ev) == GamesMerge(qz, render_sudoku_game(qz.ss, ev))

\* the quests tab
QuestsTab(r, d) ==
  [r EXCEPT !.ss = quest_progress_view(@, d)] @@ [quests |-> QuestCall(r.ss, d)]

\* the shop tab of a run that reached it
ShopDone(r, ev) ==
  [r EXCEPT !.ss = ShopTab(@, ev), !.rendered = @ \cup {"buy"}] @@ [buy |-> BuyCall(r.ss, ev)]

\* the quests and shop tabs, reached unless the games tab called st.rerun()
AfterGames(g, ev, d) ==
  IF g.rerun THEN Skipped(g) ELSE ShopDone(QuestsTab(g, d), ev)

\* the tabs after the quiz tab, reached unless the quiz tab called st.rerun()
LaterTabs(qz, ev, d) ==
  IF qz.rerun THEN Skipped(qz) ELSE AfterGames(GamesTab(qz, ev), ev, d)

Script(s, ev, d) ==
  LaterTabs(QuizTab(Sidebar(touch_daily_streak(init_state(s, d), d), ev), ev, d), ev, d)

\* the exploration stops where a run would leave the limits lim
InBounds(s, lim) ==
  /\ Len(s.history) <= lim.history
  /\ s.correct_total <= lim.correct
  /\ s.sudoku_wins <= lim.wins

\* the gate call of a run appended a history record
Settled(call) == call.called /\ Len(call.post.history) > Len(call.pre.history)

AchTitles == {ACHIEVEMENTS[i].title : i \in 1..Len(ACHIEVEMENTS)}

InSeq(x, sq) == \E i \in 1..Len(sq) : sq[i] = x

\* the settlements of the current attempt, this run's included
NthSettlement(r) == IF Settled(r.gate) THEN settlements + 1 ELSE settlements

\* the payouts counted per quest mark, those of the run's quest view included
QuestAwards(call) ==
  IF call.called
  THEN [k \in (DOMAIN quest_awards) \cup call.paid |->
           GetKey(quest_awards, k, 0) + (IF k \in call.paid THEN 1 ELSE 0)]
  ELSE quest_awards

\* the positions on the track since the attempt began, the one this run's
\* answer moved to included
Track(r) ==
  IF r.fresh THEN <<GetKey(r.ss, "quiz_map_position", 0)>>
  ELSE IF r.answer.called THEN Append(obs.track, r.ss.quiz_map_position)
  ELSE obs.track

Commit(r, lim) ==
  /\ InBounds(r.ss, lim)
  /\ ss' = r.ss
  /\ pc' = IF r.rerun THEN "rerun" ELSE "idle"
  /\ rendered' = r.rendered
  /\ obs' = [gate |-> r.gate, answer |-> r.answer, nth |-> NthSettlement(r), day |-> today,
             quests |-> r.quests, buy |-> r.buy, track |-> Track(r)]
  /\ settlements' = IF r.fresh THEN 0 ELSE NthSettlement(r)
  /\ ach_awards' = [t \in AchTitles |->
                      IF r.gate.called /\ InSeq(t, r.gate.newly)
                      THEN ach_awards[t] + 1 ELSE ach_awards[t]]
  /\ quest_awards' = QuestAwards(r.quests)
  /\ UNCHANGED <<today, engine>>

PageRun(ev, lim) == Commit(Script(ss, ev, today), lim)

(***************************************************************************)
(* The quiz text (src/tutor_engine-1.py).  A text is the sequence of its     *)
(* lines; a line is a record of its tag and the text after the tag:          *)
(*   "QUIZ START", "QUIZ END", "QUESTION", "/QUESTION"   the delimiters,     *)
(*   "Question"              the line  Question: <text>,                     *)
(*   "A", "B", "C"           the line  [A] <text>,                           *)
(*   "CORRECT"               the line  [CORRECT: <text>],                    *)
(*   "blank", "words"        an empty line, a line of other words.           *)
(* The text " " stands for white space and nothing else after the tag.       *)
(* The regular expressions are evaluated on the lines as re evaluates them   *)
(* on the characters: \s* runs across line ends, .+ stays within a line.     *)
(***************************************************************************)
Ln(tag, text) == [tag |-> tag, text |-> text]

\* the characters of a line, without the white space around them
Raw(line) ==
  CASE line.tag = "Question" ->
         IF line.text \in {"", " "} THEN "Question:" ELSE "Question: " \o line.text
    [] line.tag \in {"A", "B", "C"} ->
         IF line.text \in {"", " "} THEN "[" \o line.tag \o "]"
         ELSE "[" \o line.tag \o "] " \o line.text
    [] line.tag = "CORRECT" -> "[CORRECT: " \o line.text \o "]"
    [] line.tag = "blank" -> ""
    [] line.tag = "words" -> line.text
    [] OTHER -> "[" \o line.tag \o "]"

\* the first line from line i on that carries the tag, 0 when there is none
FirstTag(lines, tag, i) ==
  IF \E j \in i..Len(lines) : lines[j].tag = tag
  THEN CHOOSE j \in i..Len(lines) :
          /\ lines[j].tag = tag
          /\ \A k \in i..(j - 1) : lines[k].tag # tag
  ELSE 0

\* the first line after line i with characters other than white space
NextInk(lines, i) ==
  IF \E j \in (i + 1)..Len(lines) : Raw(lines[j]) # ""
  THEN CHOOSE j \in (i + 1)..Len(lines) :
          /\ Raw(lines[j]) # ""
          /\ \A k \in (i + 1)..(j - 1) : Raw(lines[k]) = ""
  ELSE 0

NoMatch == [found |-> FALSE, group |-> ""]

\* what follows the end of the quiz from line s, the line of [QUIZ START]
QuizFrom(text, s, e) ==
  IF e = 0 THEN NoMatch ELSE [found |-> TRUE, group |-> SubSeq(text, s + 1, e - 1)]

\* re.search(r"\[QUIZ START\](.*?)\[QUIZ END\]", text, flags=re.S)
SearchQuiz(text) ==
  IF FirstTag(text, "QUIZ START", 1) = 0 THEN NoMatch
  ELSE QuizFrom(text, FirstTag(text, "QUIZ START", 1),
                FirstTag(text, "QUIZ END", FirstTag(text, "QUIZ START", 1) + 1))

\* re.findall(r"\[QUESTION\](.*?)\[/QUESTION\]", body, flags=re.S) from line i
RECURSIVE FindBlocks(_, _)
BlockFrom(body, q, c) ==
  IF c = 0 THEN <<>> ELSE <<SubSeq(body, q + 1, c - 1)>> \o FindBlocks(body, c + 1)

FindBlocks(body, i) ==
  IF FirstTag(body, "QUESTION", i) = 0 THEN <<>>
  ELSE BlockFrom(body, FirstTag(body, "QUESTION", i),
                 FirstTag(body, "/QUESTION", FirstTag(body, "QUESTION", i) + 1))

\* the text the tag line i is matched with: its own, or, \s* running on
\* across the line end, the characters of the next line that has any; with
\* no such line, .+ takes white space the line itself has after the tag
GroupAt(qb, i) ==
  IF qb[i].text \notin {"", " "} THEN [found |-> TRUE, group |-> qb[i].text]
  ELSE IF NextInk(qb, i) # 0 THEN [found |-> TRUE, group |-> Raw(qb[NextInk(qb, i)])]
  ELSE IF qb[i].text = " " THEN [found |-> TRUE, group |-> " "]
  ELSE NoMatch

\* re.search(r"^\s*Question:\s*(.+)\s*$", qb, flags=re.M) and
\* re.search(rf"^\s*\[{key}\]\s*(.+)\s*$", qb, flags=re.M)
SearchLine(qb, tag) ==
  IF FirstTag(qb, tag, 1) = 0 THEN NoMatch ELSE GroupAt(qb, FirstTag(qb, tag, 1))

\* re.search(r"^\s*\[CORRECT:\s*([A-C])\s*\]", qb, flags=re.M)
MarkerLines(qb) == {j \in 1..Len(qb) : qb[j].tag = "CORRECT" /\ qb[j].text \in {"A", "B", "C"}}

SearchCorrect(qb) ==
  IF MarkerLines(qb) = {} THEN NoMatch
  ELSE [found |-> TRUE,
        group |-> qb[CHOOSE j \in MarkerLines(qb) : \A k \in MarkerLines(qb) : j <= k].text]

\* group(1).strip()
Strip(group) == IF group = " " THEN "" ELSE group

\* options_map of a sub-block
OptionsMap(qb) == [key \in {"A", "B", "C"} |-> Strip(SearchLine(qb, key).group)]

\* CorrectKey with option B as the default of a missing marker
CorrectKey_b(qb) ==
  IF SearchCorrect(qb).found THEN SearchCorrect(qb).group ELSE "B"

\* correct_key = corr_match.group(1) if corr_match else "A"
CorrectKey(qb) ==
  IF SearchCorrect(qb).found THEN SearchCorrect(qb).group ELSE "A"

\* QuizItem with the letter of the marker as the answer
QuizItem_key(question, options_map, correct_key) ==
  [question |-> question,
   options |-> <<options_map["A"], options_map["B"], options_map["C"]>>,
   answer |-> correct_key,
   explanation |-> "",
   code |-> ""]

QuizItem(question, options_map, correct_key) ==
  [question |-> question,
   options |-> <<options_map["A"], options_map["B"], options_map["C"]>>,
   answer |-> options_map[correct_key],
   explanation |-> "",
   code |-> ""]

\* one iteration of the loop of parse_quiz_block: the items it appends
ParseBlock(qb) ==
  IF Strip(SearchLine(qb, "Question").group) = ""
       \/ \E key \in {"A", "B", "C"} : OptionsMap(qb)[key] = ""
  THEN <<>>
  ELSE <<QuizItem(Strip(SearchLine(qb, "Question").group), OptionsMap(qb), CorrectKey(qb))>>

RECURSIVE ParseBlocks(_)
ParseBlocks(q_blocks) ==
  IF q_blocks = <<>> THEN <<>>
  ELSE ParseBlock(Head(q_blocks)) \o ParseBlocks(Tail(q_blocks))

ParseMatch(m) == IF ~m.found THEN <<>> ELSE ParseBlocks(FindBlocks(m.group, 1))

parse_quiz_block(text) == IF text = <<>> THEN <<>> ELSE ParseMatch(SearchQuiz(text))

QUIZ_BLOCKS == 5

\* the tag occurs in the text
InText(text, tag) == FirstTag(text, tag, 1) # 0

\* the body of the loop of validate_quiz_block
ValidBlock(qb) ==
  /\ SearchLine(qb, "Question").found
  /\ \A key \in {"A", "B", "C"} : SearchLine(qb, key).found
  /\ SearchCorrect(qb).found

ValidBlocks(q_blocks) ==
  /\ Len(q_blocks) = QUIZ_BLOCKS
  /\ \A i \in 1..Len(q_blocks) : ValidBlock(q_blocks[i])

ValidMatch(m) == m.found /\ ValidBlocks(FindBlocks(m.group, 1))

validate_quiz_block(text) ==
  /\ text # <<>>
  /\ InText(text, "QUIZ START")
  /\ InText(text, "QUIZ END")
  /\ ValidMatch(SearchQuiz(text))

(***************************************************************************)
(* The texts the generator may reply with: sub-blocks of the shapes below   *)
(* between the outer delimiters, or with a delimiter missing or misplaced.   *)
(***************************************************************************)
ShapeNames ==
  {"good", "empty_question", "no_question", "no_option_c", "empty_option_a",
   "empty_option_last", "no_marker", "bad_marker", "two_markers", "twin_options",
   "blank_question", "blank_option_last"}

\* the lines of a sub-block of a shape; the question names the shape
ShapeLines(shape) ==
  CASE shape = "good" ->
         <<Ln("Question", "good?"), Ln("A", "a"), Ln("B", "b"), Ln("C", "c"), Ln("CORRECT", "B")>>
    [] shape = "empty_question" ->
         <<Ln("Question", ""), Ln("A", "a"), Ln("B", "b"), Ln("C", "c"), Ln("CORRECT", "C")>>
    [] shape = "no_question" ->
         <<Ln("A", "a"), Ln("B", "b"), Ln("C", "c"), Ln("CORRECT", "A")>>
    [] shape = "no_option_c" ->
         <<Ln("Question", "no_option_c?"), Ln("A", "a"), Ln("B", "b"), Ln("CORRECT", "B")>>
    [] shape = "empty_option_a" ->
         <<Ln("Question", "empty_option_a?"), Ln("A", ""), Ln("blank", ""), Ln("B", "b"),
           Ln("C", "c"), Ln("CORRECT", "B")>>
    [] shape = "empty_option_last" ->
         <<Ln("Question", "empty_option_last?"), Ln("CORRECT", "B"), Ln("A", "a"), Ln("B", "b"),
           Ln("C", ""), Ln("blank", "")>>
    [] shape = "no_marker" ->
         <<Ln("Question", "no_marker?"), Ln("A", "a"), Ln("B", "b"), Ln("C", "c")>>
    [] shape = "bad_marker" ->
         <<Ln("Question", "bad_marker?"), Ln("A", "a"), Ln("B", "b"), Ln("C", "c"),
           Ln("CORRECT", "D")>>
    [] shape = "two_markers" ->
         <<Ln("Question", "two_markers?"), Ln("A", "a"), Ln("B", "b"), Ln("C", "c"),
           Ln("CORRECT", "C"), Ln("CORRECT", "B")>>
    [] shape = "twin_options" ->
         <<Ln("Question", "twin_options?"), Ln("A", "a"), Ln("B", "b"), Ln("C", "a"),
           Ln("CORRECT", "C")>>
    [] shape = "blank_question" ->
         <<Ln("Question", " "), Ln("A", "a"), Ln("B", "b"), Ln("C", "c"), Ln("CORRECT", "A")>>
    [] shape = "blank_option_last" ->
         <<Ln("Question", "blank_option_last?"), Ln("CORRECT", "B"), Ln("A", "a"), Ln("B", "b"),
           Ln("C", " ")>>

\* the sub-blocks of the shapes, each between its delimiters
RECURSIVE BlocksText(_)
BlocksText(shapes) ==
  IF shapes = <<>> THEN <<>>
  ELSE <<Ln("QUESTION", "")>> \o ShapeLines(Head(shapes)) \o <<Ln("/QUESTION", "")>>
         \o BlocksText(Tail(shapes))

Delimiters == {"both", "no_start", "no_end", "none", "end_first"}

\* generate_quiz(...) returns _chat(...).strip()
QuizText(delims, shapes) ==
  CASE delims = "both" ->
         <<Ln("QUIZ START", "")>> \o BlocksText(shapes) \o <<Ln("QUIZ END", "")>>
    [] delims = "no_start" -> BlocksText(shapes) \o <<Ln("QUIZ END", "")>>
    [] delims = "no_end" -> <<Ln("QUIZ START", "")>> \o BlocksText(shapes)
    [] delims = "none" -> BlocksText(shapes)
    [] delims = "end_first" ->
         <<Ln("QUIZ END", "")>> \o BlocksText(shapes) \o <<Ln("QUIZ START", "")>>

\* the sequences of at most n shapes
RECURSIVE ShapeSeqs(_)
ShapeSeqs(n) ==
  IF n = 0 THEN {<<>>}
  ELSE ShapeSeqs(n - 1)
         \cup {Append(sq, sh) : sq \in {x \in ShapeSeqs(n - 1) : Len(x) = n - 1}, sh \in ShapeNames}

\* n sub-blocks, all good but the one at place k
NearlyGood(n, k, shape) == [i \in 1..n |-> IF i = k THEN shape ELSE "good"]

\* quizzes of up to QUIZ_BLOCKS + MaxExtraBlocks sub-blocks with one that may be bad
NearlyGoodSeqs ==
  {NearlyGood(n, k, sh) : n \in 1..(QUIZ_BLOCKS + MaxExtraBlocks), k \in 1..QUIZ_BLOCKS, sh \in ShapeNames}

\* the empty reply and the error string _chat returns
ErrorTexts == {<<>>, <<Ln("words", "Error: Ollama not available.")>>}

QuizTexts ==
  ErrorTexts \cup {QuizText(d, sq) : d \in Delimiters, sq \in ShapeSeqs(MaxBlocks) \cup NearlyGoodSeqs}

\* the engine before a reply: no quiz text, nothing validated or parsed
NoQuiz ==
  [quiz |-> <<>>, checked |-> FALSE, valid |-> FALSE, parsed |-> FALSE, items |-> <<>>,
   phase |-> "off", part |-> 0, retry_quiz |-> 0, attempts |-> 0, calls |-> 0]

(***************************************************************************)
(* Actions.  Each takes the limits of the exploration it is part of.         *)
(***************************************************************************)
Init ==
  /\ today = 0
  /\ ss = init_state(EmptyDict, 0)
  /\ pc = "rerun"
  /\ rendered = {}
  /\ obs = [gate |-> NoCall, answer |-> NoCall, nth |-> 0, day |-> 0,
            quests |-> NoCall, buy |-> NoCall, track |-> <<>>]
  /\ quest_awards = EmptyDict
  /\ settlements = 0
  /\ ach_awards = [t \in AchTitles |-> 0]
  /\ engine = NoQuiz

\* the run that opens the session or follows an st.rerun()
RerunScript(lim) == pc = "rerun" /\ PageRun(NoEvent, lim)

\* a run triggered by an interaction that changes nothing by itself
Refresh(lim) == pc = "idle" /\ PageRun(NoEvent, lim)

SelectStudy(lim) ==
  /\ pc = "idle"
  /\ \E subj \in Subjects, chap \in lim.chapters :
        PageRun([type |-> "select", subject |-> subj, chapter |-> chap], lim)

ClickStartQuiz(lim) ==
  /\ pc = "idle"
  /\ "gen_quiz" \in rendered
  /\ \E n \in lim.lengths : PageRun([type |-> "start", n |-> n], lim)

\* the option buttons an exploration clicks: all of them (lim.options =
\* "all"), the correct one and the one after it ("two"), or the correct one
Clicked(q, lim) ==
  {i \in 0..(Len(q.options) - 1) :
       \/ lim.options = "all"
       \/ i = CorrectIndex(q)
       \/ lim.options = "two" /\ i = (CorrectIndex(q) + 1) % Len(q.options)}

ClickOption(lim) ==
  /\ pc = "idle"
  /\ "opt" \in rendered
  /\ \E i \in Clicked(ss.quiz_items[ss.quiz_map_qindex + 1], lim) :
        PageRun([type |-> "option", i |-> i], lim)

ClickRetry(lim) ==
  /\ pc = "idle"
  /\ "retry" \in rendered
  /\ PageRun([type |-> "retry"], lim)

ClickNextPart(lim) ==
  /\ pc = "idle"
  /\ "next" \in rendered
  /\ PageRun([type |-> "next"], lim)

ClickBuy(lim) ==
  /\ pc = "idle"
  /\ "buy" \in rendered
  /\ \E k \in 1..Len(SHOP_ITEMS) : PageRun([type |-> "buy", item |-> k], lim)

ClickSudokuStart(lim) ==
  /\ pc = "idle"
  /\ "sudoku_start" \in rendered
  /\ PageRun([type |-> "sudoku_start"], lim)

\* New Game drops the board, and with it the credit a started game took
ClickSudokuNew(lim) ==
  /\ pc = "idle"
  /\ "sudoku_new" \in rendered
  /\ ss.sudoku_started
  /\ PageRun([type |-> "sudoku_new"], lim)

\* the learner types into the cells of the grid
FillSudoku(lim) ==
  /\ pc = "idle"
  /\ "sudoku_grid" \in rendered
  /\ \E cells \in SudokuInputs : PageRun([type |-> "sudoku_fill", cells |-> cells], lim)

ClickSudokuCheck(lim) ==
  /\ pc = "idle"
  /\ "sudoku_check" \in rendered
  /\ PageRun([type |-> "sudoku_check"], lim)

\* midnights (UTC) pass between two runs: the clock moves on to a later one of
\* the days lim.days
AdvanceDay(lim) ==
  /\ pc = "idle"
  /\ \E d \in lim.days : d > today /\ today' = d
  /\ UNCHANGED <<ss, pc, rendered, obs, settlements, ach_awards, quest_awards, engine>>

(***************************************************************************)
(* Spec: the session within one UTC day.                                     *)
(***************************************************************************)
Limits ==
  [lengths |-> 0..MaxQuestions, history |-> MaxHistory, correct |-> MaxCorrectTotal,
   days |-> {0}, chapters |-> {"Light"}, options |-> "all", wins |-> 0]

Next ==
  \/ RerunScript(Limits)
  \/ Refresh(Limits)
  \/ SelectStudy(Limits)
  \/ ClickStartQuiz(Limits)
  \/ ClickOption(Limits)
  \/ ClickRetry(Limits)
  \/ ClickNextPart(Limits)
  \/ ClickBuy(Limits)

Spec == Init /\ [][Next]_vars

(***************************************************************************)
(* SpecDays: the quiz adventure across midnights, with short quizzes.  The   *)
(* clock is read on the day the session opens, LaterDay days later and one  *)
(* week later.                                                              *)
(***************************************************************************)
DayLimits ==
  [lengths |-> 0..DayMaxQuestions, history |-> DayMaxHistory, correct |-> DayMaxQuestions + 1,
   days |-> {0, LaterDay, WEEK_DAYS}, chapters |-> {"Light"}, options |-> "two",
   wins |-> 0]

NextDays ==
  \/ RerunScript(DayLimits)
  \/ Refresh(DayLimits)
  \/ SelectStudy(DayLimits)
  \/ ClickStartQuiz(DayLimits)
  \/ ClickOption(DayLimits)
  \/ ClickRetry(DayLimits)
  \/ AdvanceDay(DayLimits)

SpecDays == Init /\ [][NextDays]_vars

(***************************************************************************)
(* SpecWeek: the quiz adventure around the end of the quest week: the clock  *)
(* is read on the day the session opens, on the last day of its week and on  *)
(* the first day of the next.                                                *)
(***************************************************************************)
WeekLimits ==
  [lengths |-> 0..DayMaxQuestions, history |-> DayMaxHistory, correct |-> DayMaxQuestions + 1,
   days |-> {0, WEEK_DAYS - 1, WEEK_DAYS}, chapters |-> {"Light"}, options |-> "two",
   wins |-> 0]

NextWeek ==
  \/ RerunScript(WeekLimits)
  \/ Refresh(WeekLimits)
  \/ SelectStudy(WeekLimits)
  \/ ClickStartQuiz(WeekLimits)
  \/ ClickOption(WeekLimits)
  \/ AdvanceDay(WeekLimits)

SpecWeek == Init /\ [][NextWeek]_vars

(***************************************************************************)
(* SpecLedger: the operations that move a ledger, within one UTC day:        *)
(* correct answers, settlements, quest payouts, purchases and Sudoku.        *)
(***************************************************************************)
LedgerLimits ==
  [lengths |-> {LedgerMaxQuestions}, history |-> LedgerMaxHistory,
   correct |-> LedgerMaxHistory * LedgerMaxQuestions,
   days |-> {0}, chapters |-> {"Light"}, options |-> "correct", wins |-> MaxSudokuWins]

NextLedger ==
  \/ RerunScript(LedgerLimits)
  \/ Refresh(LedgerLimits)
  \/ SelectStudy(LedgerLimits)
  \/ ClickStartQuiz(LedgerLimits)
  \/ ClickOption(LedgerLimits)
  \/ ClickBuy(LedgerLimits)
  \/ ClickSudokuStart(LedgerLimits)
  \/ ClickSudokuNew(LedgerLimits)
  \/ FillSudoku(LedgerLimits)
  \/ ClickSudokuCheck(LedgerLimits)

SpecLedger == Init /\ [][NextLedger]_vars

(***************************************************************************)
(* SpecQuests: quizzes answered correctly, quest payouts and purchases       *)
(* across midnights and the end of the quest week.                           *)
(***************************************************************************)
QuestLimits ==
  [lengths |-> {LedgerMaxQuestions}, history |-> QuestMaxHistory,
   correct |-> QuestMaxHistory * LedgerMaxQuestions,
   days |-> {0, LaterDay, WEEK_DAYS}, chapters |-> {"Light"}, options |-> "correct", wins |-> 0]

NextQuests ==
  \/ RerunScript(QuestLimits)
  \/ Refresh(QuestLimits)
  \/ SelectStudy(QuestLimits)
  \/ ClickStartQuiz(QuestLimits)
  \/ ClickOption(QuestLimits)
  \/ ClickBuy(QuestLimits)
  \/ AdvanceDay(QuestLimits)

SpecQuests == Init /\ [][NextQuests]_vars

(***************************************************************************)
(* SpecGate: single attempts of up to GateMaxQuestions questions.            *)
(***************************************************************************)
GateLimits ==
  [lengths |-> 0..GateMaxQuestions, history |-> GateMaxHistory, correct |-> GateMaxQuestions,
   days |-> {0}, chapters |-> {"Light"}, options |-> "two", wins |-> 0]

NextGate ==
  \/ RerunScript(GateLimits)
  \/ Refresh(GateLimits)
  \/ SelectStudy(GateLimits)
  \/ ClickStartQuiz(GateLimits)
  \/ ClickOption(GateLimits)

SpecGate == Init /\ [][NextGate]_vars

(***************************************************************************)
(* SpecEngine: the quiz engine on one reply of the generator.  The reply is  *)
(* any of QuizTexts; validate_quiz_block and parse_quiz_block are applied    *)
(* to it, as run_chapters and the Generate Quiz button do.                   *)
(***************************************************************************)
InitEngine ==
  /\ today = 0
  /\ ss = init_state(EmptyDict, 0)
  /\ pc = "rerun"
  /\ rendered = {}
  /\ obs = [gate |-> NoCall, answer |-> NoCall, nth |-> 0, day |-> 0,
            quests |-> NoCall, buy |-> NoCall, track |-> <<>>]
  /\ quest_awards = EmptyDict
  /\ settlements = 0
  /\ ach_awards = [t \in AchTitles |-> 0]
  /\ \E text \in QuizTexts : engine = [NoQuiz EXCEPT !.quiz = text]

\* validate_quiz_block(quiz)
ValidateQuiz ==
  /\ ~engine.checked
  /\ engine' = [engine EXCEPT !.checked = TRUE, !.valid = validate_quiz_block(engine.quiz)]
  /\ UNCHANGED <<ss, today, pc, rendered, obs, settlements, ach_awards, quest_awards>>

\* parsed = parse_quiz_block(quiz)
ParseQuiz ==
  /\ ~engine.parsed
  /\ engine' = [engine EXCEPT !.parsed = TRUE, !.items = parse_quiz_block(engine.quiz)]
  /\ UNCHANGED <<ss, today, pc, rendered, obs, settlements, ach_awards, quest_awards>>

NextEngine ==
  \/ ValidateQuiz
  \/ ParseQuiz

SpecEngine == InitEngine /\ [][NextEngine]_vars

(***************************************************************************)
(* SpecChapters: run_chapters on the parts of a chapter.  engine.phase is    *)
(* the place of the generator function: "part" before generate_quiz of a     *)
(* part, "loop" at the test of the while loop, "yielded" at the yield.       *)
(* engine.calls counts the generate_quiz calls of the part.                  *)
(***************************************************************************)
\* the texts generate_quiz replies with: a full quiz, a quiz with a sub-block
\* that lacks its marker or its option C, the error string of _chat
Replies ==
  {QuizText("both", NearlyGood(QUIZ_BLOCKS, 1, sh)) : sh \in {"good", "no_marker", "no_option_c"}}
     \cup {<<Ln("words", "Error: Ollama not available.")>>}

\* the while test with the bound on attempts off by one
LoopAgain_through(e) == ~validate_quiz_block(e.quiz) /\ e.attempts <= e.retry_quiz

\* while not validate_quiz_block(quiz) and attempts < retry_quiz
LoopAgain(e) == ~validate_quiz_block(e.quiz) /\ e.attempts < e.retry_quiz

InitChapters ==
  /\ today = 0
  /\ ss = init_state(EmptyDict, 0)
  /\ pc = "rerun"
  /\ rendered = {}
  /\ obs = [gate |-> NoCall, answer |-> NoCall, nth |-> 0, day |-> 0,
            quests |-> NoCall, buy |-> NoCall, track |-> <<>>]
  /\ quest_awards = EmptyDict
  /\ settlements = 0
  /\ ach_awards = [t \in AchTitles |-> 0]
  /\ \E r \in 0..MaxRetry, n \in 1..MaxParts :
        engine = [NoQuiz EXCEPT !.phase = "part", !.part = 1, !.retry_quiz = r] @@ [parts |-> n]

\* quiz = generate_quiz(...); attempts = 0
GenerateQuiz ==
  /\ engine.phase = "part"
  /\ \E text \in Replies :
        engine' = [engine EXCEPT !.quiz = text, !.attempts = 0, !.calls = 1, !.phase = "loop",
                                 !.checked = FALSE, !.parsed = FALSE, !.items = <<>>]
  /\ UNCHANGED <<ss, today, pc, rendered, obs, settlements, ach_awards, quest_awards>>

\* the body of the while loop
Regenerate ==
  /\ engine.phase = "loop"
  /\ LoopAgain(engine)
  /\ \E text \in Replies :
        engine' = [engine EXCEPT !.quiz = text, !.attempts = @ + 1, !.calls = @ + 1]
  /\ UNCHANGED <<ss, today, pc, rendered, obs, settlements, ach_awards, quest_awards>>

\* parsed = parse_quiz_block(quiz); yield (chapter, part, lesson, quiz, parsed)
YieldPart ==
  /\ engine.phase = "loop"
  /\ ~LoopAgain(engine)
  /\ engine' = [engine EXCEPT !.phase = "yielded", !.parsed = TRUE,
                              !.items = parse_quiz_block(engine.quiz),
                              !.checked = TRUE, !.valid = validate_quiz_block(engine.quiz)]
  /\ UNCHANGED <<ss, today, pc, rendered, obs, settlements, ach_awards, quest_awards>>

\* for part in range(1, parts_per_chapter + 1)
ResumePart ==
  /\ engine.phase = "yielded"
  /\ engine.part < engine.parts
  /\ engine' = [engine EXCEPT !.phase = "part", !.part = @ + 1]
  /\ UNCHANGED <<ss, today, pc, rendered, obs, settlements, ach_awards, quest_awards>>

NextChapters ==
  \/ GenerateQuiz
  \/ Regenerate
  \/ YieldPart
  \/ ResumePart

SpecChapters == InitChapters /\ [][NextChapters]_vars

(***************************************************************************)
(* The figures of the header and of the profile: rank and level of an XP   *)
(* total, badge of a lifetime quiz count.  The functions are pure; the     *)
(* inputs are drawn from bounded ranges that pass every threshold.         *)
(***************************************************************************)
MaxXp == 4300
MaxQuizzes == 105

NoStats == [phase |-> "header", total_xp |-> 0, total_quizzes |-> 0,
            rank |-> "", level |-> 0, badge |-> "", badge_app |-> ""]

InitStats ==
  /\ today = 0
  /\ ss = init_state(EmptyDict, 0)
  /\ pc = "rerun"
  /\ rendered = {}
  /\ obs = [gate |-> NoCall, answer |-> NoCall, nth |-> 0, day |-> 0,
            quests |-> NoCall, buy |-> NoCall, track |-> <<>>]
  /\ quest_awards = EmptyDict
  /\ settlements = 0
  /\ ach_awards = [t \in AchTitles |-> 0]
  /\ \/ \E xp \in 0..MaxXp : engine = [NoStats EXCEPT !.total_xp = xp]
     \/ \E n \in 0..MaxQuizzes :
           engine = [NoStats EXCEPT !.phase = "profile", !.total_quizzes = n]

\* rank = compute_rank(st.session_state.total_xp)
\* level = compute_level(st.session_state.total_xp)
Header ==
  /\ engine.phase = "header"
  /\ engine.rank = ""
  /\ engine' = [engine EXCEPT !.rank = compute_rank(engine.total_xp),
                              !.level = compute_level(engine.total_xp)]
  /\ UNCHANGED <<ss, today, pc, rendered, obs, settlements, ach_awards, quest_awards>>

\* the Badge card of the profile: compute_badge(total_quizzes)
ProfileBadge ==
  /\ engine.phase = "profile"
  /\ engine.badge = ""
  /\ engine' = [engine EXCEPT !.badge = compute_badge(engine.total_quizzes)]
  /\ UNCHANGED <<ss, today, pc, rendered, obs, settlements, ach_awards, quest_awards>>

\* the Badge metric of the earlier variant: compute_badge(total)
DashboardBadge ==
  /\ engine.phase = "profile"
  /\ engine.badge_app = ""
  /\ engine' = [engine EXCEPT !.badge_app = compute_badge_app(engine.total_quizzes)]
  /\ UNCHANGED <<ss, today, pc, rendered, obs, settlements, ach_awards, quest_awards>>

NextStats ==
  \/ Header
  \/ ProfileBadge
  \/ DashboardBadge

SpecStats == InitStats /\ [][NextStats]_vars

(***************************************************************************)
(* SpecTotals: the running totals of the two variants of the app.  A       *)
(* behaviour is a session of app-1.py (engine.phase = "off"), with two     *)
(* chapters to study, or a session of app.py, whose state is engine.s.     *)
(***************************************************************************)
\* init_state of app.py: the keys the quiz statistics use
Defaults_app ==
  [subject |-> "", chapter |-> "", part |-> 1, quiz_items |-> <<>>,
   quiz_score |-> 0, quiz_total |-> 0, quiz_count |-> 0, progress |-> EmptyDict]

\* a subject card of the sidebar
SubjectCard(s, subject) == [s EXCEPT !.subject = subject, !.chapter = "", !.part = 1]

\* a chapter card of the sidebar
ChapterCard(s, ch) == [s EXCEPT !.chapter = ch, !.part = 1, !.quiz_items = <<>>]

\* the chat message "continue": items = parse_quiz_block(generate_quiz(...))
ChatQuiz(s, items) == IF items = <<>> THEN s ELSE [s EXCEPT !.quiz_items = items]

\* score += 1 for every idx with answers.get(idx) == q["correct"]
QuizScore(items, answers) ==
  Cardinality({idx \in 1..Len(items) : answers[idx] = items[idx].correct})

\* SubmitQuiz that counts every question as answered correctly
SubmitQuiz_full(s, answers) ==
  [s EXCEPT !.quiz_score = @ + Len(s.quiz_items),
            !.quiz_total = @ + Len(s.quiz_items),
            !.quiz_count = @ + 1,
            !.progress = ProgressAdd(ProgressDefault(@, s.subject, s.chapter),
                                     s.subject, s.chapter,
                                     QuizScore(s.quiz_items, answers), Len(s.quiz_items)),
            !.quiz_items = <<>>,
            !.part = @ + 1]

\* the Submit Quiz button
SubmitQuiz(s, answers) ==
  [s EXCEPT !.quiz_score = @ + QuizScore(s.quiz_items, answers),
            !.quiz_total = @ + Len(s.quiz_items),
            !.quiz_count = @ + 1,
            !.progress = ProgressAdd(ProgressDefault(@, s.subject, s.chapter),
                                     s.subject, s.chapter,
                                     QuizScore(s.quiz_items, answers), Len(s.quiz_items)),
            !.quiz_items = <<>>,
            !.part = @ + 1]

\* the quizzes of app.py: records with the letter of the correct option
Quizzes_app ==
  UNION {[1..n -> {[correct |-> "A"], [correct |-> "C"]}] : n \in 0..MaxQuestions}

\* the radio of each question: a letter, or nothing chosen
Choices == {"A", "C", "none"}

StudyLimits ==
  [lengths |-> {LedgerMaxQuestions}, history |-> LedgerMaxHistory,
   correct |-> LedgerMaxHistory * LedgerMaxQuestions,
   days |-> {0}, chapters |-> {"Light", "Sound"}, options |-> "two", wins |-> 0]

InitTotals ==
  /\ today = 0
  /\ ss = init_state(EmptyDict, 0)
  /\ pc = "rerun"
  /\ rendered = {}
  /\ obs = [gate |-> NoCall, answer |-> NoCall, nth |-> 0, day |-> 0,
            quests |-> NoCall, buy |-> NoCall, track |-> <<>>]
  /\ quest_awards = EmptyDict
  /\ settlements = 0
  /\ ach_awards = [t \in AchTitles |-> 0]
  /\ \/ engine = NoQuiz
     \/ engine = [phase |-> "learn", s |-> Defaults_app]

PickSubject ==
  /\ engine.phase = "learn"
  /\ \E subject \in Subjects : engine' = [engine EXCEPT !.s = SubjectCard(@, subject)]
  /\ UNCHANGED <<ss, today, pc, rendered, obs, settlements, ach_awards, quest_awards>>

PickChapter ==
  /\ engine.phase = "learn"
  /\ engine.s.subject # ""
  /\ \E ch \in StudyLimits.chapters : engine' = [engine EXCEPT !.s = ChapterCard(@, ch)]
  /\ UNCHANGED <<ss, today, pc, rendered, obs, settlements, ach_awards, quest_awards>>

AskQuiz ==
  /\ engine.phase = "learn"
  /\ engine.s.subject # "" /\ engine.s.chapter # ""
  /\ \E items \in Quizzes_app : engine' = [engine EXCEPT !.s = ChatQuiz(@, items)]
  /\ UNCHANGED <<ss, today, pc, rendered, obs, settlements, ach_awards, quest_awards>>

ClickSubmitQuiz ==
  /\ engine.phase = "learn"
  /\ engine.s.subject # "" /\ engine.s.chapter # ""
  /\ engine.s.quiz_items # <<>>
  /\ engine.s.quiz_count < MaxHistory
  /\ \E answers \in [1..Len(engine.s.quiz_items) -> Choices] :
        engine' = [engine EXCEPT !.s = SubmitQuiz(@, answers)]
  /\ UNCHANGED <<ss, today, pc, rendered, obs, settlements, ach_awards, quest_awards>>

\* Clear Progress & Restart: every key is deleted and init_state runs again
ClearProgress ==
  /\ engine.phase = "learn"
  /\ engine.s.quiz_count > 0
  /\ engine' = [engine EXCEPT !.s = Defaults_app]
  /\ UNCHANGED <<ss, today, pc, rendered, obs, settlements, ach_awards, quest_awards>>

NextTotals ==
  \/ engine.phase = "off" /\ RerunScript(StudyLimits)
  \/ engine.phase = "off" /\ Refresh(StudyLimits)
  \/ engine.phase = "off" /\ SelectStudy(StudyLimits)
  \/ engine.phase = "off" /\ ClickStartQuiz(StudyLimits)
  \/ engine.phase = "off" /\ ClickOption(StudyLimits)
  \/ engine.phase = "off" /\ ClickRetry(StudyLimits)
  \/ PickSubject
  \/ PickChapter
  \/ AskQuiz
  \/ ClickSubmitQuiz
  \/ ClearProgress

SpecTotals == InitTotals /\ [][NextTotals]_vars

(***************************************************************************)
(* The progress bars of the header and the accuracy of the progress tab.   *)
(***************************************************************************)
\* the pairs (completed, total) of at most 109 chapters, the size of SYLLABUS,
\* for which (completed / total) * 100 in binary64 falls just below the whole
\* number 100 * completed / total, so that int() gives one less
ShortProducts == {<<29, 50>>, <<29, 100>>, <<57, 100>>, <<58, 100>>}

\* int((c / t) * 100) for 0 <= c <= t, t > 0
IntPct(c, t) ==
  IF <<c, t>> \in ShortProducts THEN (100 * c) \div t - 1 ELSE (100 * c) \div t

\* the (subject, chapter) pairs the two loops visit
ChapterKeys(progress) ==
  UNION {{<<subj, chap>> : chap \in DOMAIN progress[subj]} : subj \in DOMAIN progress}

\* total = max(1, data.get("total", 0)); acc = (score / total) * 100; acc >= 70
ChapterDone(data) == 100 * data.score >= 70 * Max(1, data.total)

CompletedChapters(progress) ==
  Cardinality({k \in ChapterKeys(progress) : ChapterDone(progress[k[1]][k[2]])})

\* int(...) if total_chapters > 0 else 0
ChapterPct(completed, total) == IF total > 0 THEN IntPct(completed, total) ELSE 0

\* max(0, min(100, int((part_now - 1) / 5 * 100)))
PartPct(part) == Max(0, Min(100, IntPct(part - 1, 5)))

compute_learning_progress(s) ==
  [ss |-> s,
   ret |-> [part_pct |-> PartPct(GetKey(s, "part", 1)),
            chapter_pct |-> ChapterPct(CompletedChapters(s.progress),
                                       Cardinality(ChapterKeys(s.progress))),
            completed_chapters |-> CompletedChapters(s.progress),
            total_chapters |-> Cardinality(ChapterKeys(s.progress))]]

\* (quiz_score / quiz_total * 100) if quiz_total else 0.0, as a fraction
ProgressAccuracy(s) ==
  IF s.quiz_total # 0 THEN Fraction(100 * s.quiz_score, s.quiz_total) ELSE <<0, 1>>

MaxChapters == 50

\* what a chapter's entry of progress can hold: at or above 70% ...
DoneData == {[score |-> 7, total |-> 10], [score |-> 5, total |-> 5]}

\* ... and below it
OpenData == {[score |-> 69, total |-> 100], [score |-> 0, total |-> 0]}

\* n chapters in two subjects, the first m of them with the entry done
ChaptersOf(n, m, done, open) ==
  [subj \in (IF n > 0 THEN {"Maths"} ELSE {}) \cup (IF n > 1 THEN {"Science"} ELSE {}) |->
     [chap \in (IF subj = "Maths" THEN 1..((n + 1) \div 2) ELSE ((n + 1) \div 2 + 1)..n) |->
        IF chap <= m THEN done ELSE open]]

NoProgress == [phase |-> "progress", prog |-> <<>>, accuracy |-> <<>>]

InitProgress ==
  /\ today = 0
  /\ pc = "rerun"
  /\ rendered = {}
  /\ obs = [gate |-> NoCall, answer |-> NoCall, nth |-> 0, day |-> 0,
            quests |-> NoCall, buy |-> NoCall, track |-> <<>>]
  /\ quest_awards = EmptyDict
  /\ settlements = 0
  /\ ach_awards = [t \in AchTitles |-> 0]
  /\ engine = NoProgress
  /\ \E n \in 0..MaxChapters, part \in 1..5 :
       \E m \in 0..n, done \in DoneData, open \in OpenData :
          ss = [init_state(EmptyDict, 0) EXCEPT
                  !.part = part,
                  !.progress = ChaptersOf(n, m, done, open),
                  !.quiz_score = m * done.score + (n - m) * open.score,
                  !.quiz_total = m * done.total + (n - m) * open.total]

\* prog = compute_learning_progress()
ProgressBars ==
  /\ engine.phase = "progress"
  /\ engine.prog = <<>>
  /\ engine' = [engine EXCEPT !.prog = compute_learning_progress(ss).ret]
  /\ ss' = compute_learning_progress(ss).ss
  /\ UNCHANGED <<today, pc, rendered, obs, settlements, ach_awards, quest_awards>>

\* the accuracy card of the progress tab
ProgressTab ==
  /\ engine.phase = "progress"
  /\ engine.accuracy = <<>>
  /\ engine' = [engine EXCEPT !.accuracy = ProgressAccuracy(ss)]
  /\ UNCHANGED <<ss, today, pc, rendered, obs, settlements, ach_awards, quest_awards>>

NextProgress ==
  \/ ProgressBars
  \/ ProgressTab

SpecProgress == InitProgress /\ [][NextProgress]_vars


(***************************************************************************)
(* Properties.  obs holds what the last script run saw of its               *)
(* check_completion_gate call (obs.gate) and of its apply_answer_and_move    *)
(* call (obs.answer): the session state before and after the call.           *)
(***************************************************************************)
GatePre == obs.gate.pre
GatePost == obs.gate.post

\* the last run's gate call settled the attempt, for the first time
FirstSettlement == Settled(obs.gate) /\ obs.nth = 1

GatePassed == Settled(obs.gate) /\ obs.gate.ret[1]

GateFailed == Settled(obs.gate) /\ ~obs.gate.ret[1]

AchIndex(title) == CHOOSE i \in 1..Len(ACHIEVEMENTS) : ACHIEVEMENTS[i].title = title

RECURSIVE SumXp(_)
SumXp(titles) ==
  IF titles = <<>> THEN 0 ELSE ACHIEVEMENTS[AchIndex(Head(titles))].xp + SumXp(Tail(titles))

\* the accumulated progress[subject][chapter] of state s, zero when absent
ProgressOf(s, subj, chap) ==
  GetKey(GetKey(s.progress, subj, EmptyDict), chap, [score |-> 0, total |-> 0])

\* C1: the settlement side effects of check_completion_gate happen exactly
\* once per completed attempt, passed or failed, however often it is invoked:
\* no run settles an attempt a second time.
C1_SettledOncePerAttempt == Settled(obs.gate) => obs.nth = 1

\* C2: check_completion_gate on an attempt that is already complete
\* (quiz_map_done = True) changes nothing and returns (False, "").
C2_GateIdempotentWhenDone ==
  (obs.gate.called /\ GatePre.quiz_map_done)
     => (GatePost = GatePre /\ obs.gate.ret = <<FALSE, "">>)

C2_Witness == obs.gate.called /\ GatePre.quiz_map_done /\ Len(GatePre.history) >= 1

\* C3: in every reachable state of an attempt of T questions,
\* 0 <= quiz_map_position <= T + 1.
C3_PositionClamp ==
  "quiz_map_position" \in DOMAIN ss
     => (0 <= ss.quiz_map_position
         /\ ss.quiz_map_position <= ss.quiz_map_total_questions + 1)

\* a wrong answer given on the start tile
C3_Witness ==
  /\ obs.answer.called
  /\ ~obs.answer.ok
  /\ obs.answer.pre.quiz_map_position = 0
  /\ ss.quiz_map_position = 0

\* C4: for T >= 1 questions of which c were answered correctly, the first
\* settling gate call reports a pass exactly when 5 * c >= 4 * T.
C4_GateBoundary ==
  (FirstSettlement /\ GatePre.quiz_map_total_questions >= 1)
     => (obs.gate.ret[1]
           <=> 5 * GatePre.quiz_map_correct >= 4 * GatePre.quiz_map_total_questions)

\* four of five passes
C4_Witness ==
  /\ FirstSettlement
  /\ GatePre.quiz_map_total_questions = 5
  /\ GatePre.quiz_map_correct = 4
  /\ obs.gate.ret[1]

\* C5 as stated: a failed gate sets no completion flag and leaves total_xp,
\* coins and game_credits as they were.
C5_FailChangesNoLedger ==
  GateFailed
     => /\ ~GatePost.quiz_map_done
        /\ GatePost.total_xp = GatePre.total_xp
        /\ GatePost.coins = GatePre.coins
        /\ GatePost.game_credits = GatePre.game_credits

\* C5 amended: a failed gate sets no completion flag, leaves coins and
\* game_credits as they were, and adds to total_xp exactly the XP rewards of
\* the achievements newly unlocked by that call (no completion bonus).
C5_FailNoBonus ==
  GateFailed
     => /\ ~GatePost.quiz_map_done
        /\ GatePost.total_xp = GatePre.total_xp + SumXp(obs.gate.newly)
        /\ GatePost.coins = GatePre.coins
        /\ GatePost.game_credits = GatePre.game_credits

\* a failed gate that unlocks an achievement
C5_Witness == GateFailed /\ obs.gate.newly = <<"First Steps">>

\* C6: a passing gate sets quiz_map_done and the celebrate animation, adds 1
\* credit and 5 coins, adds 25 XP plus the XP of the achievements it newly
\* unlocks, and returns passed = True.
C6_PassBonus ==
  GatePassed
     => /\ GatePost.quiz_map_done
        /\ GatePost.quiz_map_anim = "celebrate"
        /\ GatePost.game_credits = GatePre.game_credits + 1
        /\ GatePost.coins = GatePre.coins + 5
        /\ GatePost.total_xp = GatePre.total_xp + 25 + SumXp(obs.gate.newly)
        /\ obs.gate.ret[1] = TRUE

C6_Witness ==
  /\ GatePassed
  /\ obs.gate.newly = <<"First Steps", "Flawless">>
  /\ GatePost.total_xp = GatePre.total_xp + 100


\* what the first settlement of an attempt writes besides the quest counters
SettlementRecorded ==
  /\ Len(GatePost.history) = Len(GatePre.history) + 1
  /\ GatePost.history[Len(GatePost.history)].score = GatePre.quiz_map_correct
  /\ GatePost.history[Len(GatePost.history)].total = GatePre.quiz_map_total_questions
  /\ ProgressOf(GatePost, GatePre.subject, GatePre.chapter).score
       = ProgressOf(GatePre, GatePre.subject, GatePre.chapter).score + GatePre.quiz_map_correct
  /\ ProgressOf(GatePost, GatePre.subject, GatePre.chapter).total
       = ProgressOf(GatePre, GatePre.subject, GatePre.chapter).total
           + GatePre.quiz_map_total_questions
  /\ GatePost.quiz_count = GatePre.quiz_count + 1

\* accuracy >= 80 of the attempt the gate call settled
HighAccuracy ==
  100 * GatePre.quiz_map_correct >= 80 * Max(1, GatePre.quiz_map_total_questions)

\* C7 as stated: the first settlement appends one history record, accumulates
\* progress, and adds 1 to quiz_count, daily_quizzes and weekly_quizzes, and 1
\* to weekly_80plus exactly when accuracy >= 80, each counted from its value
\* before the call.
C7_SettlementIncrements ==
  FirstSettlement
     => /\ SettlementRecorded
        /\ GatePost.quests_daily_progress.daily_quizzes
             = GatePre.quests_daily_progress.daily_quizzes + 1
        /\ GatePost.quests_weekly_progress.weekly_quizzes
             = GatePre.quests_weekly_progress.weekly_quizzes + 1
        /\ GatePost.quests_weekly_progress.weekly_80plus
             = GatePre.quests_weekly_progress.weekly_80plus
                 + (IF HighAccuracy THEN 1 ELSE 0)

\* the value a daily counter is counted from on the day of the run (obs.day):
\* zero when the stored reset date is another day
DailyBase(s, key) ==
  IF s.quests_daily_progress.reset_date = obs.day THEN s.quests_daily_progress[key] ELSE 0

\* the value a weekly counter is counted from: zero when 7 days have passed
\* since the stored week start
WeeklyBase(s, key) ==
  IF obs.day - s.quests_weekly_progress.week_start >= 7 THEN 0
  ELSE s.quests_weekly_progress[key]

\* C7 amended: as stated, with daily_quizzes counted from its value after any
\* due daily reset and the weekly counters from theirs after any due weekly
\* reset.
C7_SettlementIncrementsAfterReset ==
  FirstSettlement
     => /\ SettlementRecorded
        /\ GatePost.quests_daily_progress.daily_quizzes = DailyBase(GatePre, "daily_quizzes") + 1
        /\ GatePost.quests_daily_progress.reset_date = obs.day
        /\ GatePost.quests_weekly_progress.weekly_quizzes
             = WeeklyBase(GatePre, "weekly_quizzes") + 1
        /\ GatePost.quests_weekly_progress.weekly_80plus
             = WeeklyBase(GatePre, "weekly_80plus") + (IF HighAccuracy THEN 1 ELSE 0)

\* a first settlement one week after a day on which a quiz was settled: the
\* daily and the weekly reset are both due
C7_Witness ==
  /\ FirstSettlement
  /\ GatePre.quests_daily_progress.reset_date # obs.day
  /\ GatePre.quests_daily_progress.daily_quizzes >= 1
  /\ GatePost.quests_daily_progress.daily_quizzes = 1
  /\ obs.day - GatePre.quests_weekly_progress.week_start >= 7
  /\ GatePre.quests_weekly_progress.weekly_quizzes >= 1
  /\ GatePost.quests_weekly_progress.weekly_quizzes = 1
  /\ GatePost.quests_weekly_progress.week_start = obs.day

AnsPre == obs.answer.pre
AnsPost == obs.answer.post

\* C8: a correct answer moves position to min(position + 1, total + 1), adds
\* 1 to quiz_map_correct, correct_streak and correct_total, sets the forward
\* animation, adds exactly 5 XP, adds 1 to daily_correct (after any due daily
\* reset) and advances question_index by 1.
C8_CorrectAnswer ==
  (obs.answer.called /\ obs.answer.ok)
     => /\ AnsPost.quiz_map_position
             = Min(AnsPre.quiz_map_position + 1, AnsPre.quiz_map_total_questions + 1)
        /\ AnsPost.quiz_map_correct = AnsPre.quiz_map_correct + 1
        /\ AnsPost.quiz_map_anim = "fwd"
        /\ AnsPost.correct_streak = AnsPre.correct_streak + 1
        /\ AnsPost.correct_total = AnsPre.correct_total + 1
        /\ AnsPost.total_xp = AnsPre.total_xp + 5
        /\ AnsPost.quests_daily_progress.daily_correct = DailyBase(AnsPre, "daily_correct") + 1
        /\ AnsPost.quiz_map_qindex = AnsPre.quiz_map_qindex + 1

\* a correct answer on the day after a day with a correct answer
C8_Witness ==
  /\ obs.answer.called
  /\ obs.answer.ok
  /\ AnsPre.quests_daily_progress.reset_date # obs.day
  /\ AnsPre.quests_daily_progress.daily_correct >= 1
  /\ AnsPost.quests_daily_progress.daily_correct = 1

\* C9: an incorrect answer moves position to max(position - 1, 0), sets the
\* backward animation, resets correct_streak to 0, advances question_index by
\* 1 and leaves total_xp, quiz_map_correct, correct_total, coins, game_credits
\* and every quest counter unchanged.
C9_WrongAnswer ==
  (obs.answer.called /\ ~obs.answer.ok)
     => /\ AnsPost.quiz_map_position = Max(AnsPre.quiz_map_position - 1, 0)
        /\ AnsPost.quiz_map_anim = "back"
        /\ AnsPost.correct_streak = 0
        /\ AnsPost.quiz_map_qindex = AnsPre.quiz_map_qindex + 1
        /\ AnsPost.total_xp = AnsPre.total_xp
        /\ AnsPost.quiz_map_correct = AnsPre.quiz_map_correct
        /\ AnsPost.correct_total = AnsPre.correct_total
        /\ AnsPost.coins = AnsPre.coins
        /\ AnsPost.game_credits = AnsPre.game_credits
        /\ AnsPost.quests_daily_progress = AnsPre.quests_daily_progress
        /\ AnsPost.quests_weekly_progress = AnsPre.quests_weekly_progress

\* a wrong answer that breaks a streak and steps back from tile 1
C9_Witness ==
  /\ obs.answer.called
  /\ ~obs.answer.ok
  /\ AnsPre.correct_streak >= 1
  /\ AnsPre.quiz_map_position = 1
  /\ AnsPost.quiz_map_position = 0

Unlocked(s, title) == GetKey(s, AchKey(title), FALSE)

\* C10: across every sequence of operations an achievement once unlocked stays
\* unlocked, and the XP reward of each achievement is added at most once.
C10_AchievementsOnce ==
  /\ [][\A t \in AchTitles : Unlocked(ss, t) => Unlocked(ss', t)]_vars
  /\ [](\A t \in AchTitles : ach_awards[t] <= 1)

\* check_achievements runs again on a state whose achievement is already
\* unlocked and whose condition still holds
C10_Witness ==
  /\ Settled(obs.gate)
  /\ Unlocked(GatePre, "First Steps")
  /\ AchCond("First Steps", GatePost)
  /\ ach_awards["First Steps"] = 1
  /\ GatePost.total_xp = GatePre.total_xp + SumXp(obs.gate.newly)


\* the streak touch_daily_streak leaves when it is called on the date today
\* in the state s
StreakAfter(s) ==
  IF s.last_active_date = NoDate THEN 1
  ELSE IF today - s.last_active_date = 1 THEN s.daily_streak + 1
  ELSE IF today - s.last_active_date > 1 THEN 1
  ELSE s.daily_streak

\* C11: touch_daily_streak, called by every page run: with no last active
\* date the streak becomes 1, one day after the last active date it grows by
\* exactly 1, after a longer gap it becomes 1, on the same date it is
\* unchanged; last_active_date is today afterwards in every case.
C11_StreakArithmetic ==
  [][today' = today
       => /\ ss'.daily_streak = StreakAfter(ss)
          /\ ss'.last_active_date = today]_vars

\* a run on the day after the last active day has made the streak 2
C11_Witness ==
  /\ ss.daily_streak = 2
  /\ ss.last_active_date = today
  /\ obs.day = today
  /\ today = 1

\* the daily dictionary update_quests(key, 1) leaves on the date obs.day
DailyAfter(daily, key) ==
  IF daily.reset_date # obs.day
  THEN [[daily_quizzes |-> 0, daily_correct |-> 0, reset_date |-> obs.day] EXCEPT ![key] = 1]
  ELSE [daily EXCEPT ![key] = @ + 1]

\* C12: update_quests(key, inc) on a date other than the stored reset_date
\* zeroes the daily counters and stamps today before it applies the
\* increment: the named counter is inc, every other daily counter 0 and
\* reset_date today; on the stored date it only adds inc to the named counter.
\* (The calls of the program: daily_correct by a correct answer, daily_quizzes
\* by a settlement, inc = 1.)
C12_DailyWindow ==
  /\ (obs.answer.called /\ obs.answer.ok)
        => AnsPost.quests_daily_progress
             = DailyAfter(AnsPre.quests_daily_progress, "daily_correct")
  /\ Settled(obs.gate)
        => GatePost.quests_daily_progress
             = DailyAfter(GatePre.quests_daily_progress, "daily_quizzes")

\* a settlement on a later day than the stored reset date, with both daily
\* counters above 0 before it
C12_Witness ==
  /\ Settled(obs.gate)
  /\ GatePre.quests_daily_progress.reset_date # obs.day
  /\ GatePre.quests_daily_progress.daily_quizzes >= 1
  /\ GatePre.quests_daily_progress.daily_correct >= 1
  /\ GatePost.quests_daily_progress
       = [daily_quizzes |-> 1, daily_correct |-> 0, reset_date |-> obs.day]

Weekly(s) == s.quests_weekly_progress

\* the weekly dictionary after the window check of update_quests on obs.day
WeeklyWindow(weekly) ==
  IF obs.day - weekly.week_start >= 7
  THEN [weekly_quizzes |-> 0, weekly_80plus |-> 0, week_start |-> obs.day]
  ELSE weekly

C13_WitnessKept ==
  /\ obs.answer.called
  /\ obs.answer.ok
  /\ obs.day - Weekly(AnsPre).week_start = 6
  /\ Weekly(AnsPre).weekly_quizzes >= 1
  /\ Weekly(AnsPost) = Weekly(AnsPre)

QuestPre == obs.quests.pre
QuestPost == obs.quests.post

\* the week_start the view reads
WeekStart(s) == s.quests_weekly_progress.week_start

\* the field (reward_xp, reward_coins) of the quests of a list paid for window d
RECURSIVE RewardSum(_, _, _, _)
RewardSum(quests, paid, d, field) ==
  IF quests = <<>> THEN 0
  ELSE (IF QuestMark(Head(quests).id, d) \in paid THEN Head(quests)[field] ELSE 0)
         + RewardSum(Tail(quests), paid, d, field)

PaidTotal(field) ==
  RewardSum(DAILY_QUESTS, obs.quests.paid, obs.day, field)
    + RewardSum(WEEKLY_QUESTS, obs.quests.paid, WeekStart(QuestPre), field)

\* every quest of the list paid for window d had its counter at the target
PaidAtTarget(quests, counters, d) ==
  \A i \in 1..Len(quests) :
     QuestMark(quests[i].id, d) \in obs.quests.paid => counters[quests[i].key] >= quests[i].target

\* C14: however often quest_progress_view runs, the rewards of a daily quest
\* are granted at most once per calendar date and those of a weekly quest at
\* most once per week_start window; a view changes total_xp and coins by the
\* rewards of the quests it pays and pays only quests whose counter is at or
\* above the target.
C14_QuestPaidOncePerWindow ==
  /\ \A k \in DOMAIN quest_awards : quest_awards[k] <= 1
  /\ obs.quests.called =>
       /\ QuestPost.total_xp = QuestPre.total_xp + PaidTotal("reward_xp")
       /\ QuestPost.coins = QuestPre.coins + PaidTotal("reward_coins")
       /\ PaidAtTarget(DAILY_QUESTS, QuestPre.quests_daily_progress, obs.day)
       /\ PaidAtTarget(WEEKLY_QUESTS, QuestPre.quests_weekly_progress, WeekStart(QuestPre))

\* the view runs again with the weekly accuracy quest and the daily quiz quest
\* at their targets and pays nothing: both were paid in this window, and the
\* daily quest on the date the session opened as well
C14_Witness ==
  /\ obs.quests.called
  /\ obs.quests.paid = {}
  /\ obs.day > 0
  /\ QuestPre.quests_weekly_progress.weekly_80plus >= 3
  /\ QuestPre.quests_daily_progress.daily_quizzes >= 1
  /\ GetKey(quest_awards, QuestMark("q_weekly_accuracy", WeekStart(QuestPre)), 0) = 1
  /\ GetKey(quest_awards, QuestMark("q_daily_quiz", obs.day), 0) = 1
  /\ GetKey(quest_awards, QuestMark("q_daily_quiz", 0), 0) = 1

(***************************************************************************)
(* Purchases.  obs.buy holds the session state before and after the Buy      *)
(* click of the last run and the index of the item.                          *)
(***************************************************************************)
BuyPre == obs.buy.pre
BuyPost == obs.buy.post
BuyItem == SHOP_ITEMS[obs.buy.item]

\* what a purchase that goes through adds
Delivered(item, pre, post) ==
  IF item.type = "avatar"
  THEN /\ post.unlocked_avatars = pre.unlocked_avatars \cup {item.value}
       /\ post.game_credits = pre.game_credits
  ELSE /\ post.game_credits = pre.game_credits + item.value
       /\ post.unlocked_avatars = pre.unlocked_avatars

\* C15: a purchase with coins >= item.cost deducts exactly item.cost and adds
\* the avatar to unlocked_avatars or the quantity of the pack to game_credits;
\* a purchase with coins < item.cost changes no state at all.  The state the
\* click leaves is the state of the session.
C15_Purchase ==
  obs.buy.called =>
     /\ ss = BuyPost
     /\ IF BuyPre.coins >= BuyItem.cost
        THEN /\ BuyPost.coins = BuyPre.coins - BuyItem.cost
             /\ Delivered(BuyItem, BuyPre, BuyPost)
        ELSE BuyPost = BuyPre

\* a purchase that spends the last coin: the coins equal the cost
C15_Witness ==
  /\ obs.buy.called
  /\ BuyPre.coins = BuyItem.cost
  /\ BuyPost.coins = 0
  /\ BuyItem.type = "credits"
  /\ BuyPost.game_credits = BuyPre.game_credits + 3

\* an avatar bought with coins to spare
C15_WitnessAvatar ==
  /\ obs.buy.called
  /\ BuyPre.coins > BuyItem.cost
  /\ BuyItem.type = "avatar"
  /\ BuyItem.value \notin BuyPre.unlocked_avatars
  /\ BuyItem.value \in ss.unlocked_avatars

\* a purchase refused for want of coins
C15_WitnessRefused ==
  /\ obs.buy.called
  /\ BuyPre.coins > 0
  /\ BuyPre.coins < BuyItem.cost
  /\ ss = BuyPre

(***************************************************************************)
(* Ledgers.                                                                  *)
(***************************************************************************)
\* C16: after any sequence of answers, settlements, quest payouts, purchases
\* and Sudoku starts and wins, coins, game_credits, total_xp and daily_streak
\* are all at least 0.
C16_LedgersNonNegative ==
  /\ ss.coins >= 0
  /\ ss.game_credits >= 0
  /\ ss.total_xp >= 0
  /\ ss.daily_streak >= 0

\* both spendable ledgers are at 0: the last coin went into a credit pack
\* after two settlements, the last credit into a started game after a win
C16_Witness ==
  /\ ss.coins = 0
  /\ ss.game_credits = 0
  /\ ss.sudoku_started
  /\ ss.sudoku_wins = 1
  /\ Len(ss.history) = 2
  /\ obs.buy.called

(***************************************************************************)
(* Experience.                                                               *)
(***************************************************************************)
\* the place of a rank in the ladder RANKS
RankIndex(name) == CHOOSE i \in 1..Len(RANKS) : RANKS[i].name = name

Level(s) == compute_level(s.total_xp)
Rank(s) == RankIndex(compute_rank(s.total_xp))

\* C17: no step of the session (an answer, a settlement, a failed gate, a
\* retry, a next part, a quest payout, a purchase) lowers total_xp, nor the
\* level compute_level gives for it, nor the rank compute_rank gives for it.
C17_XpNeverDecreases ==
  [][/\ ss'.total_xp >= ss.total_xp
     /\ Level(ss') >= Level(ss)
     /\ Rank(ss') >= Rank(ss)]_vars

\* the learner has risen to level 2 and to the rank Apprentice, and the last
\* run was a purchase that went through
C17_Witness ==
  /\ ss.total_xp >= 100
  /\ Level(ss) = 2
  /\ compute_rank(ss.total_xp) = "Apprentice"
  /\ obs.buy.called
  /\ BuyPost.coins < BuyPre.coins

(***************************************************************************)
(* The quiz text.  engine holds the reply of the generator and what           *)
(* validate_quiz_block and parse_quiz_block returned for it.                 *)
(***************************************************************************)
\* the text has a [QUIZ START]...[QUIZ END] block
HasQuiz(text) == SearchQuiz(text).found

\* the [QUESTION] sub-blocks of the quiz block of the text
SubBlocks(text) == IF HasQuiz(text) THEN FindBlocks(SearchQuiz(text).group, 1) ELSE <<>>

\* what the first line with the tag says after the tag; "" without such a line
LineText(qb, tag) == IF FirstTag(qb, tag, 1) = 0 THEN "" ELSE qb[FirstTag(qb, tag, 1)].text

\* a non-empty question line and non-empty A, B and C options
Complete(qb) == \A tag \in {"Question", "A", "B", "C"} : LineText(qb, tag) \notin {"", " "}

\* the correctness markers of a sub-block: the lines [CORRECT: X] with X one of A, B, C
Markers(qb) == {j \in 1..Len(qb) : qb[j].tag = "CORRECT" /\ qb[j].text \in {"A", "B", "C"}}

\* the items are the complete sub-blocks of the list, one each and in order
ItemsAre(items, kept) ==
  /\ Len(items) = Len(kept)
  /\ \A i \in 1..Len(kept) :
        /\ items[i].question = LineText(kept[i], "Question")
        /\ items[i].options = <<LineText(kept[i], "A"), LineText(kept[i], "B"), LineText(kept[i], "C")>>

\* C18: parse_quiz_block returns the empty list for a text without a
\* [QUIZ START]...[QUIZ END] block (the empty text and an error string
\* included); for a text with the block it returns exactly one record per
\* [QUESTION] sub-block that has a non-empty question line and non-empty A, B
\* and C options, in the order of the sub-blocks, and drops every other one.
C18_ParseKeepsComplete ==
  engine.parsed =>
     IF ~HasQuiz(engine.quiz) THEN engine.items = <<>>
     ELSE ItemsAre(engine.items, SelectSeq(SubBlocks(engine.quiz), Complete))

\* the first half of C18 alone: without the outer block the list is empty
C18_NoQuizNoItems == engine.parsed /\ ~HasQuiz(engine.quiz) => engine.items = <<>>

\* a text with the outer delimiters and a sub-block whose question line is
\* empty: a record comes back and its question is the line of option A
C18_EmptyQuestionKept ==
  /\ engine.parsed
  /\ Len(SubBlocks(engine.quiz)) = 1
  /\ ~Complete(SubBlocks(engine.quiz)[1])
  /\ Len(engine.items) = 1
  /\ engine.items[1].question = "[A] a"

\* C19: a sub-block with a question and all three options whose correctness
\* marker is absent or names none of A, B, C still gives a record, and the
\* answer of the record is option A, the option at index 0.
C19_MarkerDefaultsToA ==
  engine.parsed =>
     \A i \in 1..Len(SubBlocks(engine.quiz)) :
        Complete(SubBlocks(engine.quiz)[i]) /\ Markers(SubBlocks(engine.quiz)[i]) = {} =>
           /\ \E k \in 1..Len(engine.items) :
                 engine.items[k].question = LineText(SubBlocks(engine.quiz)[i], "Question")
           /\ \A k \in 1..Len(engine.items) :
                 engine.items[k].question = LineText(SubBlocks(engine.quiz)[i], "Question") =>
                    /\ engine.items[k].answer = LineText(SubBlocks(engine.quiz)[i], "A")
                    /\ engine.items[k].answer = engine.items[k].options[1]

\* a quiz of two sub-blocks, the first with a marker naming D, the second
\* without a marker: two records, both with option A as the answer
C19_Witness ==
  /\ engine.parsed
  /\ Len(SubBlocks(engine.quiz)) = 2
  /\ \E j \in 1..Len(SubBlocks(engine.quiz)[1]) : SubBlocks(engine.quiz)[1][j].tag = "CORRECT"
  /\ \A j \in 1..Len(SubBlocks(engine.quiz)[2]) : SubBlocks(engine.quiz)[2][j].tag # "CORRECT"
  /\ \A i \in 1..2 : Complete(SubBlocks(engine.quiz)[i]) /\ Markers(SubBlocks(engine.quiz)[i]) = {}
  /\ Len(engine.items) = 2
  /\ \A k \in 1..2 : engine.items[k].answer = "a" /\ engine.items[k].options = <<"a", "b", "c">>

\* a sub-block as validate_quiz_block is said to want it; a line counts as
\* present where the expression of the validator finds it
WellFormed(qb) ==
  /\ \A tag \in {"Question", "A", "B", "C"} : SearchLine(qb, tag).found
  /\ Cardinality(Markers(qb)) = 1

\* C20: validate_quiz_block accepts a text if and only if it has the outer
\* delimiters and exactly 5 question sub-blocks, each with a question line,
\* the options A, B and C and exactly one correctness marker.
C20_ValidateExactlyOneMarker ==
  engine.checked =>
     (engine.valid <=>
        /\ HasQuiz(engine.quiz)
        /\ Len(SubBlocks(engine.quiz)) = QUIZ_BLOCKS
        /\ \A i \in 1..Len(SubBlocks(engine.quiz)) : WellFormed(SubBlocks(engine.quiz)[i]))

\* a text of five sub-blocks, one of them with two markers, is accepted
C20_TwoMarkersAccepted ==
  /\ engine.checked
  /\ engine.valid
  /\ Len(SubBlocks(engine.quiz)) = QUIZ_BLOCKS
  /\ \E i \in 1..QUIZ_BLOCKS : Cardinality(Markers(SubBlocks(engine.quiz)[i])) = 2

(***************************************************************************)
(* The generate-validate-regenerate loop of run_chapters.                    *)
(***************************************************************************)
\* C21: for each part the loop makes at most 1 + retry_quiz calls of
\* generate_quiz, makes no further call once a generated quiz passes
\* validate_quiz_block, and otherwise parses and yields the last text
\* produced, valid or not.
C21_RetryLoopBounded ==
  /\ [](engine.phase \in {"loop", "yielded"} =>
           /\ engine.calls >= 1
           /\ engine.calls <= 1 + engine.retry_quiz)
  /\ [][engine.phase = "loop" /\ validate_quiz_block(engine.quiz) =>
           /\ engine'.phase = "yielded"
           /\ engine'.calls = engine.calls
           /\ engine'.quiz = engine.quiz]_vars
  /\ [][engine.phase = "loop" /\ engine'.phase = "yielded" =>
           /\ engine'.quiz = engine.quiz
           /\ engine'.items = parse_quiz_block(engine.quiz)
           /\ validate_quiz_block(engine.quiz) \/ engine.calls = 1 + engine.retry_quiz]_vars

\* every call allowed was made and the text yielded is still invalid: the
\* parts of it that parse are yielded
C21_Witness ==
  /\ engine.phase = "yielded"
  /\ engine.retry_quiz = 2
  /\ engine.calls = 3
  /\ ~engine.valid
  /\ Len(engine.items) = QUIZ_BLOCKS

\* the second reply is valid and ends the loop with calls to spare
C21_WitnessStopped ==
  /\ engine.phase = "yielded"
  /\ engine.retry_quiz = 2
  /\ engine.calls = 2
  /\ engine.valid

(***************************************************************************)
(* The correct index of a parsed record.                                     *)
(***************************************************************************)
\* C22: for every record parse_quiz_block produces, the correct index the
\* quiz tab resolves at answer time, matching the answer text of the record
\* against its options, is 0, 1 or 2; the sentinel -1 never occurs.
C22_CorrectIndexInRange ==
  engine.parsed =>
     \A k \in 1..Len(engine.items) :
        /\ CorrectIndex(engine.items[k]) \in 0..2
        /\ engine.items[k].options[CorrectIndex(engine.items[k]) + 1] = engine.items[k].answer

\* two records: one whose marker names C and resolves to index 2, one whose
\* marker names C while option A has the same text, and resolves to index 0
C22_Witness ==
  /\ engine.parsed
  /\ Len(engine.items) = 2
  /\ CorrectIndex(engine.items[1]) = 2
  /\ engine.items[2].options[3] = engine.items[2].options[1]
  /\ engine.items[2].answer = engine.items[2].options[3]
  /\ CorrectIndex(engine.items[2]) = 0

(***************************************************************************)
(* The history record of an attempt.                                         *)
(***************************************************************************)
LastRecord(s) == s.history[Len(s.history)]

\* the ok flags of the answers of the attempt, in the order of the questions
OkFlags(s) == [k \in 1..s.quiz_map_qindex |-> s.quiz_map_answers[k - 1].ok]

\* C23: the gate call that settles an attempt appends one history record; its
\* total is the number of parsed questions of the quiz, its score is
\* quiz_map_correct, and its xp is 5 * quiz_map_correct, plus 25 if and only
\* if the attempt passed.  An attempt of 4 questions answered correct,
\* correct, correct, wrong moves over the positions 0, 1, 2, 3, 2, fails at
\* 75% and appends a record with total 4 and score 3.
C23_HistoryRecord ==
  Settled(obs.gate) =>
     /\ Len(GatePost.history) = Len(GatePre.history) + 1
     /\ LastRecord(GatePost).total = Len(GatePre.quiz_items)
     /\ LastRecord(GatePost).score = GatePre.quiz_map_correct
     /\ LastRecord(GatePost).xp =
           ANSWER_XP * GatePre.quiz_map_correct + (IF obs.gate.ret[1] THEN GATE_XP ELSE 0)
     /\ Len(GatePre.quiz_items) = 4 /\ OkFlags(GatePre) = <<TRUE, TRUE, TRUE, FALSE>> =>
           /\ obs.track = <<0, 1, 2, 3, 2>>
           /\ ~obs.gate.ret[1]
           /\ GatePost.last_quiz_pct = <<75, 1>>
           /\ LastRecord(GatePost).total = 4
           /\ LastRecord(GatePost).score = 3

\* the attempt of 4 questions answered correct, correct, correct, wrong has
\* just been settled
C23_Witness ==
  /\ Settled(obs.gate)
  /\ Len(GatePre.quiz_items) = 4
  /\ OkFlags(GatePre) = <<TRUE, TRUE, TRUE, FALSE>>
  /\ obs.track = <<0, 1, 2, 3, 2>>
  /\ Len(ss.history) = 1
  /\ LastRecord(ss) = [date |-> 0, subject |-> ss.subject, chapter |-> ss.chapter,
                       score |-> 3, total |-> 4, xp |-> 15]

(***************************************************************************)
(* The quiz of zero questions.                                               *)
(***************************************************************************)
\* the quiz of the session; init_state puts the empty list where Retry Quiz
\* or Next Part deleted the key
Items(s) == GetKey(s, "quiz_items", <<>>)

\* the attempt of a quiz without questions, as Start Quiz Adventure leaves it
ZeroQuiz(s) ==
  /\ Items(s) = <<>>
  /\ "quiz_items" \in DOMAIN s
  /\ "quiz_map_total_questions" \in DOMAIN s
  /\ s.quiz_map_total_questions = 0

\* C24: with zero parsed questions check_completion_gate divides by
\* max(1, total): the accuracy is 0 and the attempt is no pass; and a run of
\* the page with an empty quiz_items list settles nothing: the gate is not
\* called, history, quiz_count and the quest counters stay, no XP and no coin
\* is granted.
C24_ZeroQuestions ==
  /\ [](ZeroQuiz(ss) =>
          /\ ~check_completion_gate(ss, today).ret[1]
          /\ check_completion_gate(ss, today).ss.last_quiz_pct = <<0, 1>>)
  /\ [][Items(ss) = <<>> /\ Items(ss') = <<>> =>
          /\ ~obs'.gate.called
          /\ ss'.history = ss.history
          /\ ss'.quiz_count = ss.quiz_count
          /\ ss'.quests_daily_progress = ss.quests_daily_progress
          /\ ss'.quests_weekly_progress = ss.quests_weekly_progress
          /\ ss'.total_xp = ss.total_xp
          /\ ss'.coins <= ss.coins
          /\ ss'.last_quiz_pct = ss.last_quiz_pct]_vars

\* a quiz of zero questions was started and the page has run on it: the track
\* is at its start, nothing is settled, the start button is back
C24_Witness ==
  /\ ZeroQuiz(ss)
  /\ obs.track = <<0>>
  /\ pc = "idle"
  /\ "gen_quiz" \in rendered
  /\ ~obs.gate.called
  /\ ss.history = <<>>
  /\ ss.quiz_count = 0


(***************************************************************************)
(* C25..C27: rank, level and badge as functions of their totals.           *)
(***************************************************************************)
\* the entries of a table whose threshold the total has reached
Reached(table, total) == {i \in 1..Len(table) : table[i].threshold <= total}

\* the name of the reached entry with the highest threshold, or the default
Highest(table, total, default) ==
  IF Reached(table, total) = {} THEN default
  ELSE table[CHOOSE i \in Reached(table, total) :
               \A j \in Reached(table, total) : table[j].threshold <= table[i].threshold].name

RankOf == [xp \in 0..MaxXp |-> RankIndex(compute_rank(xp))]

\* C25: for every xp >= 0 compute_rank(xp) is the name of the entry of RANKS
\* with the highest threshold that is <= xp (Rookie when there is none), and
\* a larger xp never has a lower rank.
C25_RankIsHighestReached ==
  engine.rank /= "" =>
    /\ engine.rank = Highest(RANKS, engine.total_xp, "Rookie")
    /\ \A lower \in 0..engine.total_xp : RankOf[lower] <= RankOf[engine.total_xp]

\* the header shows a rank for an XP total that is exactly a threshold, and
\* one below it the rank before
C25_Witness ==
  /\ engine.rank = "Scholar"
  /\ engine.total_xp = 300
  /\ compute_rank(299) = "Apprentice"

C25_WitnessTop == engine.rank = "Grandmaster" /\ engine.total_xp = MaxXp

LevelOf == [xp \in 0..MaxXp |-> compute_level(xp)]

\* C26: for every xp >= 0 compute_level(xp) is the number of thresholds of
\* LEVEL_XP that do not exceed xp, lies in 1..len(LEVEL_XP) = 12, and a
\* larger xp never has a lower level.
C26_LevelCountsThresholds ==
  engine.level /= 0 =>
    /\ engine.level = Cardinality({i \in 1..Len(LEVEL_XP) : LEVEL_XP[i] <= engine.total_xp})
    /\ engine.level \in 1..12
    /\ Len(LEVEL_XP) = 12
    /\ \A lower \in 0..engine.total_xp : LevelOf[lower] <= LevelOf[engine.total_xp]

\* the last level is reached exactly at the last threshold
C26_Witness ==
  /\ engine.level = 12
  /\ engine.total_xp = 4200
  /\ compute_level(4199) = 11

C26_WitnessFirst == engine.level = 1 /\ engine.total_xp = 99

\* C27: for every quiz count n >= 0 compute_badge(n) is the name of the entry
\* of the descending BADGE_LADDER with the highest threshold that is <= n, and
\* the default name below every threshold; in both variants of the app, each
\* with its own ladder and default.
C27_BadgeIsHighestReached ==
  /\ engine.badge /= "" =>
        /\ engine.badge = Highest(BADGE_LADDER, engine.total_quizzes, "Novice")
        /\ engine.total_quizzes < 5 => engine.badge = "Novice"
  /\ engine.badge_app /= "" =>
        /\ engine.badge_app = Highest(BADGE_LADDER_app, engine.total_quizzes, "No Badge Yet")
        /\ engine.total_quizzes < 10 => engine.badge_app = "No Badge Yet"
  /\ \A i \in 1..(Len(BADGE_LADDER) - 1) :
        BADGE_LADDER[i].threshold > BADGE_LADDER[i + 1].threshold
  /\ \A i \in 1..(Len(BADGE_LADDER_app) - 1) :
        BADGE_LADDER_app[i].threshold > BADGE_LADDER_app[i + 1].threshold

\* a count that has passed several thresholds, shown in both variants
C27_Witness ==
  /\ engine.total_quizzes = 30
  /\ engine.badge = "Gold"
  /\ engine.badge_app = "Gold"

C27_WitnessDefault ==
  /\ engine.total_quizzes = 4
  /\ engine.badge = "Novice"
  /\ engine.badge_app = "No Badge Yet"

C27_WitnessTop ==
  /\ engine.total_quizzes = 100
  /\ engine.badge = "Diamond Master"
  /\ engine.badge_app = "Diamond"


(***************************************************************************)
(* C28: Sudoku without credits.                                            *)
(***************************************************************************)
\* what a click or an entry on the games tab would send
SudokuEvents ==
  {[type |-> "sudoku_start"], [type |-> "sudoku_new"], [type |-> "sudoku_check"],
   [type |-> "sudoku_reset"]}
     \cup {[type |-> "sudoku_fill", cells |-> c] : c \in SudokuInputs}

\* the figures a game can move
GameLedger(s) ==
  [game_credits |-> s.game_credits, sudoku_started |-> GetKey(s, "sudoku_started", FALSE),
   total_xp |-> s.total_xp, sudoku_wins |-> s.sudoku_wins,
   sudoku_games_played |-> GetKey(s, "sudoku_games_played", 0)]

\* the games tab on state s refuses the event: no rerun, no button, no game
\* figure moved, no board dealt or changed
Refused(s, ev) ==
  /\ ~render_sudoku_game(s, ev).rerun
  /\ render_sudoku_game(s, ev).shown = {}
  /\ GameLedger(render_sudoku_game(s, ev).ss) = GameLedger(s)
  /\ render_sudoku_game(s, ev).ss = SetDefault(s, "sudoku_games_played", 0)

InAttempt(s) ==
  /\ "quiz_items" \in DOMAIN s
  /\ "quiz_map_qindex" \in DOMAIN s
  /\ s.quiz_items # <<>>

\* C29: the questions are consumed in order, one per submission: while
\* quiz_map_qindex < quiz_map_total_questions check_completion_gate changes
\* nothing and returns (False, ""); every submission answers the question at
\* quiz_map_qindex and raises quiz_map_qindex by exactly 1; once
\* quiz_map_qindex = quiz_map_total_questions no option is offered, so
\* quiz_map_qindex <= quiz_map_total_questions throughout an attempt with at
\* least one question.
C29_QuestionsInOrder ==
  /\ [](InAttempt(ss) =>
          /\ ss.quiz_map_total_questions = Len(ss.quiz_items)
          /\ ss.quiz_map_qindex \in 0..ss.quiz_map_total_questions
          /\ ss.quiz_map_qindex < ss.quiz_map_total_questions =>
                /\ check_completion_gate(ss, today).ss = ss
                /\ check_completion_gate(ss, today).ret = <<FALSE, "">>
          /\ ss.quiz_map_qindex >= ss.quiz_map_total_questions => "opt" \notin rendered)
  /\ []((obs.gate.called /\ GatePre.quiz_map_qindex < GatePre.quiz_map_total_questions) =>
          /\ GatePost = GatePre
          /\ obs.gate.ret = <<FALSE, "">>)
  /\ [](obs.answer.called =>
          /\ obs.answer.qidx = AnsPre.quiz_map_qindex
          /\ AnsPre.quiz_map_qindex < AnsPre.quiz_map_total_questions
          /\ AnsPost.quiz_map_qindex = AnsPre.quiz_map_qindex + 1)
  /\ [][(InAttempt(ss) /\ InAttempt(ss')) =>
          IF obs'.answer.called
          THEN ss'.quiz_map_qindex = ss.quiz_map_qindex + 1
          ELSE ss'.quiz_map_qindex \in {ss.quiz_map_qindex, 0}]_vars

\* the last question has been submitted and the page drawn: the result is
\* shown and no option is offered
C29_Witness ==
  /\ InAttempt(ss)
  /\ ss.quiz_map_total_questions = 2
  /\ ss.quiz_map_qindex = 2
  /\ pc = "idle"
  /\ obs.gate.called
  /\ "retry" \in rendered
  /\ "opt" \notin rendered

\* the gate was called between the first and the second question
C29_WitnessMid ==
  /\ InAttempt(ss)
  /\ obs.gate.called
  /\ GatePre.quiz_map_qindex = 1
  /\ GatePre.quiz_map_total_questions = 2
  /\ "opt" \in rendered

\* the number of answers of the attempt marked ok
OkCount(s) ==
  Cardinality({i \in DOMAIN s.quiz_map_answers : s.quiz_map_answers[i].ok})

\* C30: throughout an attempt quiz_map_answers has exactly one entry for
\* each question index below quiz_map_qindex and none at or above it,
\* quiz_map_correct is the number of entries whose ok flag is true, and
\* 0 <= quiz_map_correct <= quiz_map_qindex.
C30_AnswersMatchIndex ==
  "quiz_map_qindex" \in DOMAIN ss =>
    /\ DOMAIN ss.quiz_map_answers = 0..(ss.quiz_map_qindex - 1)
    /\ ss.quiz_map_correct = OkCount(ss)
    /\ ss.quiz_map_correct \in 0..ss.quiz_map_qindex

\* two answers given, one of them right
C30_Witness ==
  /\ InAttempt(ss)
  /\ ss.quiz_map_qindex = 2
  /\ ss.quiz_map_correct = 1
  /\ DOMAIN ss.quiz_map_answers = {0, 1}
  /\ ss.quiz_map_answers[0].ok
  /\ ~ss.quiz_map_answers[1].ok


(***************************************************************************)
(* C31: mastery aggregation.                                               *)
(***************************************************************************)
\* the entries of progress, as (score, total) of each (subject, chapter)
Attempted(s) == ChapterKeys(s.progress)

Mastered(s) ==
  {k \in Attempted(s) :
      100 * s.progress[k[1]][k[2]].score >= 70 * Max(1, s.progress[k[1]][k[2]].total)}

\* C31: a chapter is mastered exactly when its score/total (total at least 1)
\* is at least 70%; chapter_pct = floor(100 * mastered / attempted), 0 when
\* no chapter was attempted; the overall accuracy is quiz_score/quiz_total, 0
\* when quiz_total = 0; compute_learning_progress changes no state.
C31_MasteryAggregation ==
  /\ engine.prog # <<>> =>
        /\ engine.prog.total_chapters = Cardinality(Attempted(ss))
        /\ engine.prog.completed_chapters = Cardinality(Mastered(ss))
        /\ engine.prog.chapter_pct =
              IF Attempted(ss) = {} THEN 0
              ELSE (100 * Cardinality(Mastered(ss))) \div Cardinality(Attempted(ss))
  /\ engine.accuracy # <<>> =>
        /\ ss.quiz_total = 0 => engine.accuracy = <<0, 1>>
        /\ ss.quiz_total # 0 =>
              engine.accuracy[1] * ss.quiz_total = 100 * ss.quiz_score * engine.accuracy[2]
  /\ compute_learning_progress(ss).ss = ss

\* the same without the rounding of chapter_pct: the counts, the accuracy
\* and the absence of any state change
C31_CountsAndAccuracy ==
  /\ engine.prog # <<>> =>
        /\ engine.prog.total_chapters = Cardinality(Attempted(ss))
        /\ engine.prog.completed_chapters = Cardinality(Mastered(ss))
        /\ Attempted(ss) = {} => engine.prog.chapter_pct = 0
        /\ Attempted(ss) # {} =>
              (100 * Cardinality(Mastered(ss))) \div Cardinality(Attempted(ss))
                 - engine.prog.chapter_pct \in {0, 1}
  /\ engine.accuracy # <<>> =>
        /\ ss.quiz_total = 0 => engine.accuracy = <<0, 1>>
        /\ ss.quiz_total # 0 =>
              engine.accuracy[1] * ss.quiz_total = 100 * ss.quiz_score * engine.accuracy[2]
  /\ compute_learning_progress(ss).ss = ss


(***************************************************************************)
(* C32: daily quests are paid for the events of the date.                  *)
(***************************************************************************)
\* C32: a daily quest is paid on date D only for a counter that the quest
\* events of date D brought to the target: the counters the view reads were
\* reset on D (reset_date = D), never left over from an earlier date.
C32_DailyPaidForTodaysEvents ==
  obs.quests.called =>
    \A i \in 1..Len(DAILY_QUESTS) :
       QuestMark(DAILY_QUESTS[i].id, obs.day) \in obs.quests.paid
          => QuestPre.quests_daily_progress.reset_date = obs.day


(***************************************************************************)
(* C33: the buttons of a passed attempt.                                   *)
(***************************************************************************)
\* the adventure state is gone: no quiz_map_* key and no quiz_items
Discarded(s) == DOMAIN s \cap (QuizMapKeys \cup {"quiz_items"}) = {}

\* the page shows the result of a passed attempt: Next Part is drawn only
\* when check_completion_gate returned True
PassedShown == pc = "idle" /\ "next" \in rendered /\ "retry" \in rendered

\* C33: after an attempt has passed the gate, the run of a click on Next
\* Part raises part by 1 when part < 5 and discards the adventure state, and
\* the run of a click on Retry Quiz discards the adventure state.
C33_PassedActionsTakeEffect ==
  [][/\ (PassedShown /\ ClickNextPart(Limits)) =>
          /\ ss'.part = IF ss.part < 5 THEN ss.part + 1 ELSE ss.part
          /\ Discarded(ss')
     /\ (PassedShown /\ ClickRetry(Limits)) =>
          /\ ss'.part = ss.part
          /\ Discarded(ss')]_vars

\* the same for a failed attempt, whose Retry Quiz is drawn by every run
C33_FailedRetryTakesEffect ==
  [][(pc = "idle" /\ "next" \notin rendered /\ ClickRetry(Limits)) =>
        /\ ss'.part = ss.part
        /\ Discarded(ss')]_vars


(***************************************************************************)
(* C34: the index that scores an answer against the letter of the marker.  *)
(***************************************************************************)
\* A = 0, B = 1, C = 2
LetterIndex(letter) == CASE letter = "A" -> 0 [] letter = "B" -> 1 [] letter = "C" -> 2

\* the letter of the one marker of a sub-block
MarkedLetter(qb) == qb[CHOOSE j \in Markers(qb) : TRUE].text

\* every sub-block of the text is complete and carries exactly one marker
AllMarked(text) ==
  /\ HasQuiz(text)
  /\ \A i \in 1..Len(SubBlocks(text)) :
        Complete(SubBlocks(text)[i]) /\ Cardinality(Markers(SubBlocks(text)[i])) = 1

\* C34: the correct index the quiz tab uses on a record of the parser is the
\* index of the letter the marker of its sub-block names (A = 0, B = 1,
\* C = 2), whatever the option texts are, two equal option texts included.
C34_IndexIsMarkedLetter ==
  (engine.parsed /\ AllMarked(engine.quiz)) =>
     /\ Len(engine.items) = Len(SubBlocks(engine.quiz))
     /\ \A i \in 1..Len(engine.items) :
           CorrectIndex(engine.items[i]) = LetterIndex(MarkedLetter(SubBlocks(engine.quiz)[i]))

\* the same for sub-blocks whose three option texts differ
C34_DistinctOptions ==
  (engine.parsed /\ AllMarked(engine.quiz)) =>
     /\ Len(engine.items) = Len(SubBlocks(engine.quiz))
     /\ \A i \in 1..Len(engine.items) :
           Cardinality({engine.items[i].options[k] : k \in 1..3}) = 3 =>
              CorrectIndex(engine.items[i]) = LetterIndex(MarkedLetter(SubBlocks(engine.quiz)[i]))


(***************************************************************************)
(* C35: the running totals agree with the history and with progress.       *)
(***************************************************************************)
RECURSIVE HistorySum(_, _)
HistorySum(history, field) ==
  IF history = <<>> THEN 0 ELSE Head(history)[field] + HistorySum(Tail(history), field)

RECURSIVE EntrySum(_, _, _)
EntrySum(progress, keys, field) ==
  IF keys = {} THEN 0
  ELSE progress[(CHOOSE k \in keys : TRUE)[1]][(CHOOSE k \in keys : TRUE)[2]][field]
         + EntrySum(progress, keys \ {CHOOSE k \in keys : TRUE}, field)

ProgressSum(progress, field) == EntrySum(progress, ChapterKeys(progress), field)

\* the totals of a session agree with its progress entries
TotalsMatchProgress(s) ==
  /\ s.quiz_score = ProgressSum(s.progress, "score")
  /\ s.quiz_total = ProgressSum(s.progress, "total")
  /\ s.quiz_score <= s.quiz_total
  /\ \A k \in ChapterKeys(s.progress) :
        s.progress[k[1]][k[2]].score <= s.progress[k[1]][k[2]].total

\* C35: in every reachable state quiz_count is the number of history
\* records, quiz_score the sum of their scores and of the scores of the
\* progress entries, quiz_total the sum of their totals and of the totals of
\* the progress entries, and score <= total for the totals and for every
\* progress entry; in app.py, which keeps no history, the totals agree with
\* the progress entries in the same way.
C35_TotalsAgree ==
  /\ engine.phase = "off" =>
        /\ ss.quiz_count = Len(ss.history)
        /\ ss.quiz_score = HistorySum(ss.history, "score")
        /\ ss.quiz_total = HistorySum(ss.history, "total")
        /\ TotalsMatchProgress(ss)
  /\ engine.phase = "learn" =>
        /\ TotalsMatchProgress(engine.s)
        /\ engine.s.quiz_count = 0 <=> engine.s.progress = EmptyDict

\* two settled attempts in two chapters, one right and one wrong
C35_Witness ==
  /\ engine.phase = "off"
  /\ Len(ss.history) = 2
  /\ Cardinality(ChapterKeys(ss.progress)) = 2
  /\ ss.quiz_score = 1
  /\ ss.quiz_total = 2

\* two quizzes submitted in app.py in two chapters, three of four right
C35_WitnessApp ==
  /\ engine.phase = "learn"
  /\ engine.s.quiz_count = 2
  /\ Cardinality(ChapterKeys(engine.s.progress)) = 2
  /\ engine.s.quiz_score = 3
  /\ engine.s.quiz_total = 4


(***************************************************************************)
(* C36: the tile of the map against the answers given.                     *)
(***************************************************************************)
\* C36: throughout an attempt quiz_map_position <= quiz_map_correct and
\* quiz_map_position >= 2 * quiz_map_correct - quiz_map_qindex; so the
\* position never exceeds quiz_map_total_questions and equals it only when
\* every question was answered correctly.
C36_PositionBetweenBounds ==
  "quiz_map_position" \in DOMAIN ss =>
     /\ ss.quiz_map_position <= ss.quiz_map_correct
     /\ ss.quiz_map_position >= 2 * ss.quiz_map_correct - ss.quiz_map_qindex
     /\ ss.quiz_map_position <= ss.quiz_map_total_questions
     /\ (ss.quiz_map_total_questions > 0
           /\ ss.quiz_map_position = ss.quiz_map_total_questions) =>
          /\ ss.quiz_map_correct = ss.quiz_map_total_questions
          /\ ss.quiz_map_qindex = ss.quiz_map_total_questions

\* wrong, right, right, wrong, right: the first wrong answer is absorbed by
\* the start tile, so the position is above correct minus wrong
C36_Witness ==
  /\ InAttempt(ss)
  /\ ss.quiz_map_total_questions = 5
  /\ obs.track = <<0, 0, 1, 2, 1, 2>>
  /\ ss.quiz_map_correct = 3
  /\ ss.quiz_map_position = 2

\* every question answered correctly: the last tile
C36_WitnessAllRight ==
  /\ InAttempt(ss)
  /\ ss.quiz_map_total_questions = 5
  /\ ss.quiz_map_position = 5
  /\ ss.quiz_map_correct = 5


(***************************************************************************)
(* C37: what Retry Quiz and Next Part leave alone.                         *)
(***************************************************************************)
\* the quest-claim marks and achievement flags a session of one day can hold
MarkKeys ==
  {AchKey(title) : title \in AchTitles}
    \cup {QuestMark(DAILY_QUESTS[i].id, 0) : i \in 1..Len(DAILY_QUESTS)}
    \cup {QuestMark(WEEKLY_QUESTS[i].id, 0) : i \in 1..Len(WEEKLY_QUESTS)}

\* the ledgers, streaks, statistics, quest counters, marks and flags
Kept(s) ==
  [total_xp |-> s.total_xp, coins |-> s.coins, game_credits |-> s.game_credits,
   daily_streak |-> s.daily_streak, correct_streak |-> s.correct_streak,
   correct_total |-> s.correct_total, history |-> s.history, progress |-> s.progress,
   quiz_count |-> s.quiz_count, daily |-> s.quests_daily_progress,
   weekly |-> s.quests_weekly_progress,
   marks |-> [k \in MarkKeys |-> GetKey(s, k, FALSE)]]

\* the adventure state as init_state and initialize_quiz_map_state restore it
FreshAttempt(s) ==
  /\ s.quiz_map_position = 0
  /\ s.quiz_map_correct = 0
  /\ s.quiz_map_qindex = 0
  /\ ~s.quiz_map_done
  /\ s.quiz_map_answers = EmptyDict
  /\ s.quiz_items = <<>>

\* C37: the run of a click on Retry Quiz or Next Part resets only the
\* adventure state (every quiz_map_* key and quiz_items; part + 1 up to 5 for
\* Next Part): the ledgers, streaks, history, progress, quiz_count, quest
\* counters, quest-claim marks and achievement flags keep their values, and
\* the attempt that follows starts at position 0 with nothing answered.
C37_ResetOnlyAdventure ==
  /\ [][ClickRetry(Limits) =>
          /\ Kept(ss') = Kept(ss)
          /\ Discarded(ss')
          /\ ss'.part = ss.part]_vars
  /\ [][ClickNextPart(Limits) =>
          /\ Kept(ss') = Kept(ss)
          /\ Discarded(ss')
          /\ ss'.part = IF ss.part < 5 THEN ss.part + 1 ELSE ss.part]_vars
  /\ [][Discarded(ss) => (FreshAttempt(ss') /\ Kept(ss') = Kept(ss))]_vars

\* the handlers alone: where the run of the click reaches its button, the
\* state it leaves is the state after the gate call of that run without the
\* adventure keys, and the next run starts a fresh attempt
C37_HandlerResetsOnlyAdventure ==
  /\ [][(ClickRetry(Limits) /\ "next" \notin rendered) =>
          /\ Kept(ss') = Kept(obs'.gate.post)
          /\ ss' = DeleteQuizKeys(obs'.gate.post)
          /\ ss'.part = ss.part]_vars
  /\ [][Discarded(ss) => (FreshAttempt(ss') /\ Kept(ss') = Kept(ss))]_vars


(***************************************************************************)
(* C38: a started Sudoku game stays playable.                              *)
(***************************************************************************)
\* a game has been started and neither won nor replaced by a new one
GameOpen(s) == GetKey(s, "sudoku_started", FALSE)

\* the grid and the Check button are on the page
Playable == {"sudoku_check", "sudoku_grid"} \subseteq rendered

\* C38: after every page run that leaves a Sudoku game started (its credit
\* deducted, not yet won, no new game begun) the grid and the Check button
\* are on the page, whatever the credit balance, 0 included.
C38_StartedGameStaysPlayable ==
  (pc = "idle" /\ GameOpen(ss)) => Playable

\* a run that begins with a credit left and leaves a game started shows it
C38_PlayableWithCredit ==
  [][(pc' = "idle" /\ GameOpen(ss') /\ ss.game_credits > 0)
       => {"sudoku_check", "sudoku_grid"} \subseteq rendered']_vars

\* with no credit left the started game is never on the page
C38_LastCreditLocksGame ==
  (pc = "idle" /\ GameOpen(ss) /\ ss.game_credits = 0) => rendered \cap {"sudoku_check", "sudoku_grid", "sudoku_new", "sudoku_reset"} = {}


(***************************************************************************)
(* C39: the validator against the parser.                                  *)
(***************************************************************************)
\* the sub-block ends in a question or option line with only white space
\* after its label
EndsBlank(qb) ==
  \E tag \in {"Question", "A", "B", "C"} :
     /\ FirstTag(qb, tag, 1) # 0
     /\ qb[FirstTag(qb, tag, 1)].text = " "
     /\ NextInk(qb, FirstTag(qb, tag, 1)) = 0

\* C39: a text that validate_quiz_block accepts is parsed by
\* parse_quiz_block into exactly 5 records, none of its 5 sub-blocks dropped,
\* sub-blocks with only white space after a question or option label included.
C39_ValidParsesToFive ==
  (engine.checked /\ engine.valid /\ engine.parsed) => Len(engine.items) = QUIZ_BLOCKS

\* an accepted text loses a record exactly for each sub-block that ends in a
\* label followed by white space alone
C39_DropsOnlyTrailingBlank ==
  (engine.checked /\ engine.valid /\ engine.parsed) =>
     Len(engine.items)
       = QUIZ_BLOCKS - Cardinality({i \in 1..QUIZ_BLOCKS : EndsBlank(SubBlocks(engine.quiz)[i])})

\* an accepted text whose question line holds only white space keeps all 5
\* records: the question of the record is the line of option A
C39_BlankQuestionKept ==
  /\ engine.checked
  /\ engine.valid
  /\ engine.parsed
  /\ Len(engine.items) = QUIZ_BLOCKS
  /\ \E k \in 1..QUIZ_BLOCKS :
        /\ LineText(SubBlocks(engine.quiz)[k], "Question") = " "
        /\ engine.items[k].question = "[A] a"

====
